---- MODULE Spec2Model ----
(***************************************************************************)
(* A model of alex/components/asr/utterance.py: the Utterance word list,   *)
(* its phrase search and substitution, and the word confusion network      *)
(* (UtteranceConfusionNetwork) with its long links.                        *)
(*                                                                         *)
(* A word is a sequence of characters, a text is a sequence of characters  *)
(* that may hold blanks, a phrase is a sequence of words.  Indices into    *)
(* Python lists are kept 0-based in every value the model stores or        *)
(* returns; TLA+ sequences are 1-based, so element i of a Python list l is *)
(* l[i + 1] here.                                                          *)
(***************************************************************************)
EXTENDS Integers, Sequences, FiniteSets, TLC

VARIABLES mode, lists, utts, net, ncalls, last

\* the locals of a running get_utterance_nblist: the frontier, the closed
\* hypotheses in closing order, the loop counter i (iters), the argument n
\* (limit) and the position in the method; and the n_best list of the
\* UtteranceNBList under study, entries [prob, utt], utt a word list
VARIABLES open_hyp, closed_hyp, iters, limit, pc, n_best

nbvars == <<open_hyp, closed_hyp, iters, limit, pc, n_best>>

\* the locals of a running UtteranceConfusionNetwork._replace
VARIABLES rep

\* the AbstractedUtterance objects under study, in the order they were
\* made: records [utterance, wordset, abstr_idxs]
VARIABLES abutts

\* the NLG process: its position in run(), the locals of the call it is in
\* and what it has handled so far
VARIABLES nlg
\* the connections of the NLG process and the close event: what waits on
\* commands and dialogue_act_in, what the process has sent on commands and
\* text_out
VARIABLES hub
nlgvars == <<nlg, hub>>
restvars == <<rep, abutts, nlgvars>>

vars == <<mode, lists, utts, net, ncalls, last, nbvars, restvars>>

(***************************************************************************)
(* Bounds of the model.                                                    *)
(***************************************************************************)
\* the number of Utterance objects alive at once
MaxUtts == 2
\* the number of slots of a confusion network
MaxSlots == 3
\* the number of long links of a confusion network
MaxLinks == 2
\* the number of calls that change a confusion network
MaxCalls == 5

Min(a, b) == IF a < b THEN a ELSE b

Max(a, b) == IF a > b THEN a ELSE b

\* the elements of a sequence, as Python's set(list)
Range(s) == {s[i] : i \in DOMAIN s}

\* all sequences over S of length lo..hi
SeqsOf(S, lo, hi) == UNION {[1..n -> S] : n \in lo..hi}

\* Python's l[i:j] for 0 <= i, 0-based, end exclusive, clipped to the list
Slice(l, i, j) == SubSeq(l, i + 1, Min(j, Len(l)))

(***************************************************************************)
(* Characters, words and texts.                                            *)
(***************************************************************************)
Blank == " "

Letters == {"a", "A", "b"}

Chars == Letters \cup {Blank}

\* unicode.lower() on one character
LowerChar(c) == IF c = "A" THEN "a" ELSE c

\* word.lower()
LowerWord(w) == [i \in DOMAIN w |-> LowerChar(w[i])]

\* surface.split(): the maximal runs of non-blank characters, in order
RECURSIVE SplitFrom(_, _, _)
SplitFrom(text, i, cur) ==
    IF i > Len(text)
    THEN IF cur = <<>> THEN <<>> ELSE <<cur>>
    ELSE IF text[i] = Blank
         THEN (IF cur = <<>> THEN <<>> ELSE <<cur>>) \o SplitFrom(text, i + 1, <<>>)
         ELSE SplitFrom(text, i + 1, Append(cur, text[i]))

Split(text) == SplitFrom(text, 1, <<>>)

\* the surface strings handed to Utterance(surface): "", "A", "a A", " Aa"
Texts == {<<>>, <<"A">>, <<"a", Blank, "A">>, <<Blank, "A", "a">>}

\* the word lists handed to the utterance setter
WordLists == {<<>>, <<<<"A">>, <<"a">>>>, <<<<"a">>, <<"a">>, <<"A">>>>}

\* the phrases callers look for
Phrases == {<<<<"a">>>>, <<<<"A">>>>, <<<<"a">>, <<"A">>>>, <<<<"a">>, <<"a">>>>,
            <<<<"A">>, <<"a">>>>}

\* the replacements callers substitute
Replacements == {<<>>, <<<<"a">>>>, <<<<"A">>, <<"a">>>>}

(***************************************************************************)
(* Utterance.find.                                                         *)
(***************************************************************************)
\* the loop of lines 179-184: the offset of the next occurrence of the
\* phrase's first word within the phrase, or the phrase's length
MaxSkip(phrase) ==
    LET again == {k \in 1..(Len(phrase) - 1) : phrase[k + 1] = phrase[1]}
    IN IF again = {} THEN Len(phrase)
       ELSE CHOOSE k \in again : \A j \in again : k <= j

\* the inner for loop of lines 194-197: the first phrase_idx at which the
\* utterance and the phrase differ, 0 when the else branch (a match) is taken
Mismatch(utt, phrase, match_idx) ==
    LET diff == {k \in 1..(Len(phrase) - 1) :
                    utt[match_idx + k + 1] # phrase[k + 1]}
    IN IF diff = {} THEN 0
       ELSE CHOOSE k \in diff : \A j \in diff : k <= j

\* the while loop of lines 190-204
RECURSIVE FindLoop(_, _, _, _)
FindLoop(utt, phrase, max_skip, match_idx) ==
    IF match_idx > Len(utt) - Len(phrase)
    THEN -1
    ELSE IF utt[match_idx + 1] = phrase[1]
         THEN LET phrase_idx == Mismatch(utt, phrase, match_idx)
              IN IF phrase_idx = 0
                 THEN match_idx
                 ELSE FindLoop(utt, phrase, max_skip,
                               match_idx + Min(max_skip, phrase_idx))
         ELSE FindLoop(utt, phrase, max_skip, match_idx + 1)

\* Utterance.find on the word list utt and the word set wordset of one object
Find(utt, wordset, phrase) ==
    IF ~(\A k \in DOMAIN phrase : phrase[k] \in wordset)
    THEN -1
    ELSE FindLoop(utt, phrase, MaxSkip(phrase), 0)

\* an index that takes a match at index 0 for no match
IndexFromOne(utt, wordset, phrase) ==
    LET index == Find(utt, wordset, phrase)
    IN IF index <= 0
       THEN [ret |-> -1, err |-> "ValueError"]
       ELSE [ret |-> index, err |-> "none"]

\* Utterance.index: [ret, err]
Index(utt, wordset, phrase) ==
    LET index == Find(utt, wordset, phrase)
    IN IF index = -1
       THEN [ret |-> -1, err |-> "ValueError"]
       ELSE [ret |-> index, err |-> "none"]

(***************************************************************************)
(* The objects: Utterance and AbstractedUtterance instances, and the list  *)
(* objects their _utterance fields refer to.  Two instances may refer to   *)
(* one list: the setter and from_utterance store the list they are given.  *)
(***************************************************************************)
UttIds == 1..MaxUtts

ListIds == 1..MaxUtts

NoUtt == [cls |-> "none", lst |-> 0, wordset |-> {}, abstr_idxs |-> <<>>]

Live(us) == {u \in UttIds : us[u].cls # "none"}

Referenced(us) == {us[u].lst : u \in Live(us)}

\* the list cells no instance refers to are reclaimed
Collect(ls, us) == [l \in ListIds |-> IF l \in Referenced(us) THEN ls[l] ELSE <<>>]

Lowest(S) == CHOOSE x \in S : \A y \in S : x <= y

\* the word list of instance u
UttList(u) == lists[utts[u].lst]

\* what the model keeps of the last call: the operation, the receiver, the
\* arguments, the value returned or the exception raised, the receiver
\* before (pre) and after (post) the call, and whether the object returned
\* is the receiver (same)
NoCall == [op |-> "none", self |-> 0, phrase |-> <<>>, repl |-> <<>>,
           ret |-> 0, err |-> "none", pre |-> <<>>, post |-> <<>>, same |-> FALSE]

\* no _replace is running
NoReplace == [pc |-> "none"]

\* the NLG process before it is made
NoNlg == [pc |-> "none"]

\* the connections before the hub makes them
NoHub == [close_event |-> FALSE]

\* nothing but the calls of the specification at hand is going on
NoRest == rep = NoReplace /\ abutts = <<>> /\ nlg = NoNlg /\ hub = NoHub

\* no get_utterance_nblist is running
NoSearch ==
    /\ open_hyp = <<>>
    /\ closed_hyp = <<>>
    /\ iters = 0
    /\ limit = 0
    /\ pc = "none"
    /\ n_best = <<>>

\* the caller is between two calls
Idle == last.op = "none"

\* the caller has taken the result of the last call and goes on
Continue ==
    /\ ~Idle
    /\ last' = NoCall
    /\ UNCHANGED <<restvars, nbvars, mode, lists, utts, net, ncalls>>

\* Utterance.__init__ (lines 84-86) on a new instance
UttNew(text) ==
    /\ mode = "utt"
    /\ Idle
    /\ UttIds \ Live(utts) # {}
    /\ LET u == Lowest(UttIds \ Live(utts))
           l == Lowest(ListIds \ Referenced(utts))
           surface == Split(text)
           us == [utts EXCEPT ![u] = [cls |-> "Utterance", lst |-> l,
                                      wordset |-> Range(surface),
                                      abstr_idxs |-> <<>>]]
       IN /\ utts' = us
          /\ lists' = Collect([lists EXCEPT ![l] = surface], us)
          /\ last' = [NoCall EXCEPT !.op = "init", !.self = u]
    /\ UNCHANGED <<restvars, nbvars, mode, net, ncalls>>

\* the utterance setter (lines 133-136) given a list of the caller's
UttSet(u, utt) ==
    /\ mode = "utt"
    /\ Idle
    /\ u \in Live(utts)
    /\ LET others == [utts EXCEPT ![u] = NoUtt]
           l == Lowest(ListIds \ Referenced(others))
           us == [utts EXCEPT ![u].lst = l, ![u].wordset = Range(utt)]
       IN /\ utts' = us
          /\ lists' = Collect([lists EXCEPT ![l] = utt], us)
          /\ last' = [NoCall EXCEPT !.op = "set", !.self = u]
    /\ UNCHANGED <<restvars, nbvars, mode, net, ncalls>>

\* the utterance setter given the list the getter of instance v returns
\* (lines 129-136): u.utterance = v.utterance
UttSetFrom(u, v) ==
    /\ mode = "utt"
    /\ Idle
    /\ u \in Live(utts) /\ v \in Live(utts) /\ u # v
    /\ LET us == [utts EXCEPT ![u].lst = utts[v].lst,
                              ![u].wordset = Range(UttList(v))]
       IN /\ utts' = us
          /\ lists' = Collect(lists, us)
          /\ last' = [NoCall EXCEPT !.op = "set", !.self = u]
    /\ UNCHANGED <<restvars, nbvars, mode, net, ncalls>>

\* AbstractedUtterance.from_utterance (lines 286-291)
FromUtterance(v) ==
    /\ mode = "utt"
    /\ Idle
    /\ v \in Live(utts)
    /\ UttIds \ Live(utts) # {}
    /\ LET u == Lowest(UttIds \ Live(utts))
           us == [utts EXCEPT ![u] = [cls |-> "AbstractedUtterance",
                                      lst |-> utts[v].lst,
                                      wordset |-> Range(UttList(v)),
                                      abstr_idxs |-> <<>>]]
       IN /\ utts' = us
          /\ lists' = lists
          /\ last' = [NoCall EXCEPT !.op = "from_utterance", !.self = v, !.ret = u]
    /\ UNCHANGED <<restvars, nbvars, mode, net, ncalls>>

\* Utterance.lower (lines 224-233): the list is changed in place
UttLower(u) ==
    /\ mode = "utt"
    /\ Idle
    /\ u \in Live(utts)
    /\ LET l == utts[u].lst
           lowered == [i \in DOMAIN lists[l] |-> LowerWord(lists[l][i])]
       IN /\ lists' = [lists EXCEPT ![l] = lowered]
          /\ utts' = [utts EXCEPT ![u].wordset = Range(lowered)]
          /\ last' = [NoCall EXCEPT !.op = "lower", !.self = u, !.ret = u]
    /\ UNCHANGED <<restvars, nbvars, mode, net, ncalls>>

\* a call of Utterance.find (lines 157-206)
UttFind(u, phrase) ==
    /\ mode = "utt"
    /\ Idle
    /\ u \in Live(utts)
    /\ last' = [NoCall EXCEPT !.op = "find", !.self = u, !.phrase = phrase,
                              !.ret = Find(UttList(u), utts[u].wordset, phrase)]
    /\ UNCHANGED <<restvars, nbvars, mode, lists, utts, net, ncalls>>

\* a call of Utterance.index (lines 142-155)
UttIndex(u, phrase) ==
    /\ mode = "utt"
    /\ Idle
    /\ u \in Live(utts)
    /\ LET r == Index(UttList(u), utts[u].wordset, phrase)
       IN last' = [NoCall EXCEPT !.op = "index", !.self = u, !.phrase = phrase,
                                 !.ret = r.ret, !.err = r.err]
    /\ UNCHANGED <<restvars, nbvars, mode, lists, utts, net, ncalls>>

\* a call of Utterance.replace (lines 208-222) with return_startidx unset
UttReplace(u, orig, replacement) ==
    /\ mode = "utt"
    /\ Idle
    /\ u \in Live(utts)
    /\ utts[u].cls = "Utterance"
    /\ LET orig_pos == Find(UttList(u), utts[u].wordset, orig)
           pre == [utterance |-> UttList(u), wordset |-> utts[u].wordset]
       IN IF orig_pos = -1
          THEN /\ last' = [NoCall EXCEPT !.op = "replace", !.self = u,
                                         !.phrase = orig, !.repl = replacement,
                                         !.ret = u, !.pre = pre]
               /\ UNCHANGED <<restvars, nbvars, lists, utts>>
          ELSE /\ UttIds \ Live(utts) # {}
               /\ LET r == Lowest(UttIds \ Live(utts))
                      l == Lowest(ListIds \ Referenced(utts))
                      utt == Slice(UttList(u), 0, orig_pos) \o replacement
                             \o Slice(UttList(u), orig_pos + Len(orig), Len(UttList(u)))
                      us == [utts EXCEPT ![r] = [cls |-> "Utterance", lst |-> l,
                                                 wordset |-> Range(utt),
                                                 abstr_idxs |-> <<>>]]
                  IN /\ utts' = us
                     /\ lists' = Collect([lists EXCEPT ![l] = utt], us)
                     /\ last' = [NoCall EXCEPT !.op = "replace", !.self = u,
                                               !.phrase = orig, !.repl = replacement,
                                               !.ret = r, !.pre = pre]
    /\ UNCHANGED <<restvars, nbvars, mode, net, ncalls>>

(***************************************************************************)
(* Probabilities.  The code computes with floats; the model computes with  *)
(* exact fractions <<numerator, denominator>> in lowest terms.             *)
(***************************************************************************)
RECURSIVE GCD(_, _)
GCD(a, b) == IF b = 0 THEN a ELSE GCD(b, a % b)

Frac(n, d) == LET g == GCD(n, d) IN IF n = 0 THEN <<0, 1>> ELSE <<n \div g, d \div g>>

Zero == <<0, 1>>

One == <<1, 1>>

Plus(x, y) == Frac(x[1] * y[2] + y[1] * x[2], x[2] * y[2])

Times(x, y) == Frac(x[1] * y[1], x[2] * y[2])

\* x / y for y # 0
Over(x, y) == Frac(x[1] * y[2], x[2] * y[1])

Less(x, y) == x[1] * y[2] < y[1] * x[2]

\* sum(...) and reduce(mul, ..., 1.) over a sequence of probabilities
RECURSIVE SumOf(_)
SumOf(ps) == IF ps = <<>> THEN Zero ELSE Plus(ps[1], SumOf(Tail(ps)))

RECURSIVE ProductOf(_)
ProductOf(ps) == IF ps = <<>> THEN One ELSE Times(ps[1], ProductOf(Tail(ps)))

\* the probabilities of a slot's alternatives
Probs(alts) == [i \in DOMAIN alts |-> alts[i].p]

\* del l[i], 0-based
DelAt(l, i) == SubSeq(l, 1, i) \o SubSeq(l, i + 2, Len(l))

(***************************************************************************)
(* UtteranceConfusionNetwork.  An instance is a record                     *)
(*   cn          the slots, each a list of alternatives [p, w]             *)
(*   long_links  per slot, a list of LongLink records                      *)
(*                 [end, orig_probs, hyp = [p, w]], hyp.w the phrase       *)
(*   wordset     the word set                                              *)
(*   abstr_idxs  the abstraction indices, pairs <<word idx, alt idx>>      *)
(* A phrase stored in a long link keeps the Python type it was given as,   *)
(* [kind, words]: a list never equals a tuple.                             *)
(***************************************************************************)
EmptyNet == [cn |-> <<>>, long_links |-> <<>>, wordset |-> {}, abstr_idxs |-> <<>>]

ListOf(ws) == [kind |-> "list", words |-> ws]

TupleOf(ws) == [kind |-> "tuple", words |-> ws]

\* UtteranceConfusionNetwork.add (lines 828-840); hyps are <<weight, word>>
\* pairs with integer weights
Add(self, hyps) ==
    LET tot == SumOf([i \in DOMAIN hyps |-> Frac(hyps[i][1], 1)])
    IN IF tot = Zero
       THEN [net |-> self, err |-> "ZeroDivisionError"]
       ELSE LET normaliser == Over(One, tot)
            IN [net |-> [self EXCEPT
                    !.cn = Append(@, [i \in DOMAIN hyps |->
                                [p |-> Times(Frac(hyps[i][1], 1), normaliser),
                                 w |-> hyps[i][2]]]),
                    !.long_links = Append(@, <<>>),
                    !.wordset = @ \cup {hyps[i][2] : i \in DOMAIN hyps}],
                err |-> "none"]

\* the long links normalise counts at the slot after moving on by one word
\* (lines 1121-1129): those of link_idxs with a further carried probability,
\* then those starting at start_idx
MoveLinks(self, link_idxs, start_idx) ==
    LET moved == SelectSeq([i \in DOMAIN link_idxs |->
                               <<link_idxs[i][1], link_idxs[i][2], link_idxs[i][3] + 1>>],
                           LAMBDA idx : idx[3] <
                               Len(self.long_links[idx[1] + 1][idx[2] + 1].orig_probs))
    IN moved \o [aidx \in 1..Len(self.long_links[start_idx + 1]) |->
                    <<start_idx, aidx - 1, 0>>]

\* a normalise that leaves the carried probabilities of the links alone
UnscaledLinks(links, link_idxs, k, normaliser) == links

\* the assignments of line 1137 for the links of link_idxs[k..]
RECURSIVE ScaleLinks(_, _, _, _)
ScaleLinks(links, link_idxs, k, normaliser) ==
    IF k > Len(link_idxs) THEN links
    ELSE LET idx == link_idxs[k]
         IN ScaleLinks([links EXCEPT ![idx[1] + 1][idx[2] + 1].orig_probs[idx[3] + 1] =
                            Times(@, normaliser)],
                       link_idxs, k + 1, normaliser)

\* the loop of lines 1119-1137 from slot start_idx on, up to slot stop
RECURSIVE NormaliseFrom(_, _, _, _)
NormaliseFrom(self, link_idxs, start_idx, stop) ==
    IF start_idx >= stop
    THEN [net |-> self, err |-> "none"]
    ELSE LET here == MoveLinks(self, link_idxs, start_idx)
             tot == Plus(SumOf(Probs(self.cn[start_idx + 1])),
                         SumOf([i \in DOMAIN here |->
                                  self.long_links[here[i][1] + 1][here[i][2] + 1]
                                      .orig_probs[here[i][3] + 1]]))
         IN IF tot = Zero
            THEN [net |-> self, err |-> "ZeroDivisionError"]
            ELSE LET normaliser == Over(One, tot)
                     scaled == [self EXCEPT
                         !.cn[start_idx + 1] =
                             [i \in DOMAIN @ |-> [@[i] EXCEPT !.p = Times(@, normaliser)]],
                         !.long_links = ScaleLinks(@, here, 1, normaliser)]
                 IN NormaliseFrom(scaled, here, start_idx + 1, stop)

\* UtteranceConfusionNetwork.normalise (lines 1107-1137) with end = None
Normalise(self) == NormaliseFrom(self, <<>>, 0, Len(self.cn))


(***************************************************************************)
(* UtteranceConfusionNetwork.get_phrase_idxs (lines 901-992).  The result  *)
(* is a sequence of triples <<word idx, alt idx, link start idx>>, empty   *)
(* when the phrase was not found.                                          *)
(***************************************************************************)
\* phrase[i:] and phrase[:i] of a typed phrase
PhraseFrom(phrase, i) ==
    [phrase EXCEPT !.words = SubSeq(@, i + 1, Len(@))]

PhraseUpto(phrase, i) ==
    [phrase EXCEPT !.words = SubSeq(@, 1, Min(i, Len(@)))]

\* the value l_idx holds after the loop of lines 943-968 has run to its
\* end: the index of the last link of the last slot of [start, end) that
\* has long links
LastLIdx(self, start, end) ==
    LET with == {s \in start..(end - 1) : self.long_links[s + 1] # <<>>}
        s == CHOOSE x \in with : \A y \in with : y <= x
    IN Len(self.long_links[s + 1]) - 1

\* the long links of lines 973-977, as <<start_idx, index in long_links[start_idx]>>
RECURSIVE PhraseLinks(_, _, _, _)
PhraseLinks(self, s, start, end) ==
    IF s >= end \/ s >= Len(self.long_links) THEN <<>>
    ELSE SelectSeq([j \in 1..Len(self.long_links[s + 1]) |-> <<s, j - 1>>],
                   LAMBDA sl : self.long_links[s + 1][sl[2] + 1].end > start)
         \o PhraseLinks(self, s + 1, start, end)

RECURSIVE GetPhraseIdxs(_, _, _, _, _)
RECURSIVE ScanSlots(_, _, _, _)
RECURSIVE ScanLinks(_, _, _, _, _)
RECURSIVE ScanMidlinks(_, _, _, _, _, _, _)

\* the loop of lines 957-968 over the long links of slot start_idx, from
\* link l_idx on
ScanLinks(self, phrase, start_idx, end, l_idx) ==
    IF l_idx >= Len(self.long_links[start_idx + 1]) THEN <<>>
    ELSE LET link == self.long_links[start_idx + 1][l_idx + 1]
             l_len == Len(link.hyp.w.words)
             sub_find == GetPhraseIdxs(self, PhraseFrom(phrase, l_len),
                                       link.end, end, FALSE)
         IN IF l_len = Len(phrase.words) /\ link.hyp.w = phrase
            THEN << <<-start_idx, l_idx, 0>> >>
            ELSE IF /\ l_len < Len(phrase.words)
                    /\ link.end <= end
                    /\ link.hyp.w = PhraseUpto(phrase, l_len)
                    /\ sub_find # <<>>
                 THEN << <<-start_idx, l_idx, 0>> >> \o sub_find
                 ELSE ScanLinks(self, phrase, start_idx, end, l_idx + 1)

\* the loop of lines 943-968 from slot start_idx on
ScanSlots(self, phrase, start_idx, end) ==
    IF start_idx >= end THEN <<>>
    ELSE LET alts == self.cn[start_idx + 1]
             matching_hyps == {i \in 1..Len(alts) : alts[i].w = phrase.words[1]}
             aidx == Lowest(matching_hyps) - 1
             sub_find == GetPhraseIdxs(self, PhraseFrom(phrase, 1),
                                       start_idx + 1, end, FALSE)
             by_links == ScanLinks(self, phrase, start_idx, end, 0)
         IN IF matching_hyps # {} /\ Len(phrase.words) = 1
            THEN << <<start_idx, aidx, 0>> >>
            ELSE IF matching_hyps # {} /\ sub_find # <<>>
                 THEN << <<start_idx, aidx, 0>> >> \o sub_find
                 ELSE IF by_links # <<>>
                      THEN by_links
                      ELSE ScanSlots(self, phrase, start_idx + 1, end)

\* the loops of lines 979-990 from the k-th of phrase_links on, within it
\* from link_start_idx on; l_idx is the value left by the loop of line 957
ScanMidlinks(self, phrase, end, phrase_links, k, link_start_idx, l_idx) ==
    IF k > Len(phrase_links) THEN <<>>
    ELSE LET start_idx == phrase_links[k][1]
             link == self.long_links[start_idx + 1][phrase_links[k][2] + 1]
             link_phr == link.hyp.w
         IN IF link_start_idx >= Len(link_phr.words)
            THEN ScanMidlinks(self, phrase, end, phrase_links, k + 1, 1, l_idx)
            ELSE LET l_suffix == PhraseFrom(link_phr, link_start_idx)
                     l_len == Len(l_suffix.words)
                     sub_find == GetPhraseIdxs(self, PhraseFrom(phrase, l_len),
                                               link.end, end, FALSE)
                 IN IF l_suffix = PhraseUpto(phrase, l_len) /\ sub_find # <<>>
                    THEN << <<-start_idx, l_idx, link_start_idx>> >> \o sub_find
                    ELSE ScanMidlinks(self, phrase, end, phrase_links, k,
                                      link_start_idx + 1, l_idx)

GetPhraseIdxs(self, phrase, start, end, start_in_midlinks) ==
    IF phrase.words = <<>>
    THEN << <<start, 0, 0>> >>
    ELSE IF end <= start
    THEN <<>>
    ELSE IF ~(\A k \in DOMAIN phrase.words : phrase.words[k] \in self.wordset)
    THEN <<>>
    ELSE LET found == ScanSlots(self, phrase, start, end)
             phrase_links == PhraseLinks(self, start, start, end)
         IN IF found # <<>> THEN found
            ELSE IF start_in_midlinks /\ phrase_links # <<>>
                 THEN ScanMidlinks(self, phrase, end, phrase_links, 1, 1,
                                   LastLIdx(self, start, end))
                 ELSE <<>>

\* abs()
Abs(x) == IF x < 0 THEN -x ELSE x

\* UtteranceConfusionNetwork.find (lines 724-729) with start = 0, end = None
CnFindOf(self, phrase) ==
    LET idxs == GetPhraseIdxs(self, phrase, 0, Len(self.cn), TRUE)
    IN IF idxs # <<>> THEN Abs(idxs[1][1]) ELSE -1

\* UtteranceConfusionNetwork.index (lines 688-693): [ret, err]
CnIndexOf(self, phrase) ==
    LET index == CnFindOf(self, phrase)
    IN IF index = -1
       THEN [ret |-> -1, err |-> "ValueError"]
       ELSE [ret |-> index, err |-> "none"]


(***************************************************************************)
(* UtteranceConfusionNetwork._replace (lines 734-826).                     *)
(***************************************************************************)
\* whether replaced._cn[widx][aidx] exists
HasAlt(replaced, widx, aidx) ==
    widx < Len(replaced.cn) /\ aidx < Len(replaced.cn[widx + 1])

\* whether replaced._long_links[widx][aidx] exists
HasLink(replaced, widx, aidx) ==
    widx < Len(replaced.long_links) /\ aidx < Len(replaced.long_links[widx + 1])

\* the loops of lines 763-769 (deletion) and 806-810 (general case) from
\* the k-th triple on; slicing tells the deletion loop, whose last branch
\* deletes a slice of a LongLink, a namedtuple
RECURSIVE RemoveMatched(_, _, _, _)
RemoveMatched(replaced, idxs, k, slicing) ==
    IF k > Len(idxs) THEN [net |-> replaced, err |-> "none"]
    ELSE LET widx == idxs[k][1]
             aidx == idxs[k][2]
             lsidx == idxs[k][3]
         IN IF widx >= 0
            THEN IF HasAlt(replaced, widx, aidx)
                 THEN RemoveMatched([replaced EXCEPT !.cn[widx + 1] = DelAt(@, aidx)],
                                    idxs, k + 1, slicing)
                 ELSE [net |-> replaced, err |-> "IndexError"]
            ELSE IF ~HasLink(replaced, -widx, aidx)
                 THEN [net |-> replaced, err |-> "IndexError"]
                 ELSE IF slicing /\ lsidx # 0
                      THEN [net |-> replaced, err |-> "TypeError"]
                      ELSE RemoveMatched(
                               [replaced EXCEPT !.long_links[(-widx) + 1] = DelAt(@, aidx)],
                               idxs, k + 1, slicing)

\* whether every element lines 790-792 read exists
CanReadProbs(replaced, idxs) ==
    \A k \in DOMAIN idxs :
        IF idxs[k][1] >= 0 THEN HasAlt(replaced, idxs[k][1], idxs[k][2])
        ELSE HasLink(replaced, -idxs[k][1], idxs[k][2])

\* orig_probs of lines 790-792
OrigProbs(replaced, idxs) ==
    [k \in DOMAIN idxs |->
        IF idxs[k][1] >= 0
        THEN replaced.cn[idxs[k][1] + 1][idxs[k][2] + 1].p
        ELSE replaced.long_links[(-idxs[k][1]) + 1][idxs[k][2] + 1].hyp.p]

\* the body of the loop of lines 755-811 for one occurrence:
\* [net, err, do_normalise, update_wordset]
EditOccurrence(replaced, idxs, replacement, keep) ==
    LET start_widx == Abs(idxs[1][1])
        end_widx == idxs[Len(idxs)][1]
        end_aidx == idxs[Len(idxs)][2]
        end_lsidx == idxs[Len(idxs)][3]
        Out(r, n, u) == [net |-> r.net, err |-> r.err,
                         do_normalise |-> n, update_wordset |-> u]
        Fail(e) == [net |-> replaced, err |-> e,
                    do_normalise |-> FALSE, update_wordset |-> FALSE]
    IN IF Len(replacement.words) = 0
       THEN \* Deletion
            IF keep THEN Out([net |-> replaced, err |-> "none"], FALSE, FALSE)
            ELSE Out(RemoveMatched(replaced, idxs, 1, TRUE), TRUE, TRUE)
       ELSE IF Len(idxs) = 1 /\ Len(replacement.words) = 1 /\ idxs[1][1] >= 0
       THEN \* Substituting in-place
            LET widx == idxs[1][1]
                aidx == idxs[1][2]
            IN IF ~HasAlt(replaced, widx, aidx) THEN Fail("IndexError")
               ELSE LET repl_hyp == [p |-> replaced.cn[widx + 1][aidx + 1].p,
                                     w |-> replacement.words[1]]
                    IN Out([net |-> IF keep
                                    THEN [replaced EXCEPT !.cn[widx + 1] = Append(@, repl_hyp)]
                                    ELSE [replaced EXCEPT !.cn[widx + 1][aidx + 1] = repl_hyp],
                            err |-> "none"], FALSE, TRUE)
       ELSE IF end_lsidx # 0
       THEN \* Substituting just a part of a long link: a slice of a
            \* LongLink, a namedtuple, is assigned to
            IF Len(idxs) # 1 THEN Fail("AssertionError")
            ELSE IF ~HasLink(replaced, -end_widx, end_aidx) THEN Fail("IndexError")
            ELSE Fail("TypeError")
       ELSE \* General case
            IF ~CanReadProbs(replaced, idxs) THEN Fail("IndexError")
            ELSE LET orig_probs == OrigProbs(replaced, idxs)
                     prob == ProductOf(orig_probs)
                     end == IF end_widx >= 0 THEN end_widx + 1
                            ELSE replaced.long_links[(-end_widx) + 1][end_aidx + 1].end
                     new_link == [end |-> end, orig_probs |-> orig_probs,
                                  hyp |-> [p |-> prob, w |-> replacement]]
                     linked == [replaced EXCEPT
                                    !.long_links[start_widx + 1] = Append(@, new_link)]
                 IN IF keep THEN Out([net |-> linked, err |-> "none"], TRUE, TRUE)
                    ELSE Out(RemoveMatched(linked, idxs, 1, FALSE), TRUE, TRUE)

\* the state of the loop after one occurrence was edited: acc is [net,
\* repl_idxs, do_normalise, update_wordset, err]
Edited(acc, idxs, edit) ==
    [net |-> edit.net,
     repl_idxs |-> acc.repl_idxs \o idxs,
     do_normalise |-> acc.do_normalise \/ edit.do_normalise,
     update_wordset |-> acc.update_wordset \/ edit.update_wordset,
     err |-> edit.err]

\* the loop of lines 755-814 (Occurrences), which looks for another
\* occurrence after each edit (FurtherOccurrences, lines 813-814)
RECURSIVE Occurrences(_, _, _, _, _)
RECURSIVE FurtherOccurrences(_, _, _, _, _)
FurtherOccurrences(acc, start_widx, phrase, replacement, keep) ==
    IF acc.err # "none" THEN acc
    ELSE Occurrences(acc,
                     GetPhraseIdxs(acc.net, phrase, start_widx + 1,
                                   Len(acc.net.cn), TRUE),
                     phrase, replacement, keep)

Occurrences(acc, idxs, phrase, replacement, keep) ==
    IF idxs = <<>> \/ acc.err # "none" THEN acc
    ELSE FurtherOccurrences(
             Edited(acc, idxs, EditOccurrence(acc.net, idxs, replacement, keep)),
             Abs(idxs[1][1]), phrase, replacement, keep)

\* lines 820-824
WordsOf(replaced) ==
    UNION {{replaced.cn[i][j].w : j \in DOMAIN replaced.cn[i]} : i \in DOMAIN replaced.cn}
    \cup UNION {UNION {Range(replaced.long_links[i][j].hyp.w.words) :
                          j \in DOMAIN replaced.long_links[i]} :
                   i \in DOMAIN replaced.long_links}

\* copy.deepcopy(self) of line 751: a new object, nothing shared
DeepCopy(self) == [net |-> self, same |-> FALSE]

\* a _replace that copies on every call
CopyOnCall(self, idxs) == DeepCopy(self)

\* a _replace that edits the receiver
CopyNever(self, idxs) == [net |-> self, same |-> TRUE]

\* lines 744-751: replaced is self until a first occurrence is found, then
\* a deep copy of self
Replaced(self, idxs) ==
    IF idxs # <<>> THEN DeepCopy(self) ELSE [net |-> self, same |-> TRUE]

\* lines 816-817: [net, err]
Normed(done) ==
    IF done.err = "none" /\ done.do_normalise
    THEN Normalise(done.net)
    ELSE [net |-> done.net, err |-> done.err]

\* lines 819-824
Rebuilt(done, normed) ==
    IF normed.err = "none" /\ done.update_wordset
    THEN [normed.net EXCEPT !.wordset = WordsOf(normed.net)]
    ELSE normed.net

\* line 826, with the receiver after the call (self), whether the object
\* returned is the receiver (same), and the exception raised if any
Outcome(self, copy, done, normed) ==
    LET replaced == Rebuilt(done, normed)
    IN [self |-> IF copy.same THEN replaced ELSE self,
        replaced |-> replaced,
        same |-> copy.same,
        repl_idxs |-> done.repl_idxs,
        err |-> normed.err]

\* lines 816-826
Finish(self, copy, done) == Outcome(self, copy, done, Normed(done))

\* lines 753-826
ReplaceIn(self, copy, idxs, phrase, replacement, keep) ==
    Finish(self, copy,
           Occurrences([net |-> copy.net, repl_idxs |-> <<>>,
                        do_normalise |-> FALSE, update_wordset |-> FALSE,
                        err |-> "none"],
                       idxs, phrase, replacement, keep))

\* lines 748-826
ReplaceFrom(self, idxs, phrase, replacement, keep) ==
    ReplaceIn(self, Replaced(self, idxs), idxs, phrase, replacement, keep)

\* _replace: [self, replaced, same, repl_idxs, err], self the receiver
\* after the call, replaced the object returned, same whether they are one
\* object
ReplaceOf(self, phrase, replacement, keep) ==
    ReplaceFrom(self, GetPhraseIdxs(self, phrase, 0, Len(self.cn), TRUE),
                phrase, replacement, keep)


(***************************************************************************)
(* The other operations of UtteranceConfusionNetwork.                      *)
(***************************************************************************)
\* sep.join(words)
RECURSIVE Join(_, _)
Join(words, sep) ==
    IF words = <<>> THEN <<>>
    ELSE IF Len(words) = 1 THEN words[1]
    ELSE words[1] \o sep \o Join(Tail(words), sep)

\* Abstracted.splitter, which joins a category label and its value
Splitter == <<"=">>

\* the code point of a character
Code(c) == CASE c = " " -> 32 [] c = "=" -> 61 [] c = "A" -> 65
             [] c = "a" -> 97 [] c = "b" -> 98

\* w1 < w2 on unicode strings
RECURSIVE WordLess(_, _)
WordLess(w1, w2) ==
    IF w2 = <<>> THEN FALSE
    ELSE IF w1 = <<>> THEN TRUE
    ELSE IF w1[1] # w2[1] THEN Code(w1[1]) < Code(w2[1])
    ELSE WordLess(Tail(w1), Tail(w2))

\* (p, w) tuples: h1 > h2
HypGreater(h1, h2) == Less(h2.p, h1.p) \/ (h1.p = h2.p /\ WordLess(h2.w, h1.w))

\* pairs of integers: x < y
PairLess(x, y) == x[1] < y[1] \/ (x[1] = y[1] /\ x[2] < y[2])

\* list.sort(reverse=True) on a slot: a stable insertion sort, the greater
\* (p, w) tuples first
RECURSIVE InsertHyp(_, _)
InsertHyp(l, x) ==
    IF l = <<>> THEN <<x>>
    ELSE IF HypGreater(x, l[1]) THEN <<x>> \o l
    ELSE <<l[1]>> \o InsertHyp(Tail(l), x)

RECURSIVE SortedHyps(_)
SortedHyps(l) ==
    IF l = <<>> THEN <<>>
    ELSE InsertHyp(SortedHyps(SubSeq(l, 1, Len(l) - 1)), l[Len(l)])

\* list.sort() on the abstraction indices: the lesser pairs first
RECURSIVE InsertPair(_, _)
InsertPair(l, x) ==
    IF l = <<>> THEN <<x>>
    ELSE IF PairLess(x, l[1]) THEN <<x>> \o l
    ELSE <<l[1]>> \o InsertPair(Tail(l), x)

RECURSIVE SortedPairs(_)
SortedPairs(l) ==
    IF l = <<>> THEN <<>>
    ELSE InsertPair(SortedPairs(SubSeq(l, 1, Len(l) - 1)), l[Len(l)])

\* lines 679-681 on the outcome r of _replace
Labelled(r) ==
    IF r.err = "none" /\ r.repl_idxs # <<>>
    THEN LET replaced ==
                 [r.replaced EXCEPT !.abstr_idxs =
                     SortedPairs(@ \o [k \in DOMAIN r.repl_idxs |->
                                          <<r.repl_idxs[k][1], r.repl_idxs[k][2]>>])]
         IN [r EXCEPT !.replaced = replaced,
                      !.self = IF r.same THEN replaced ELSE r.self]
    ELSE r

\* UtteranceConfusionNetwork.phrase2category_label (lines 671-682): as
\* ReplaceOf; phrase and catlab are lists of words
Phrase2CategoryLabelOf(self, phrase, catlab) ==
    Labelled(ReplaceOf(self, phrase,
                       TupleOf(<<Join(<<Join(catlab, <<Blank>>),
                                        Join(phrase.words, <<Blank>>)>>,
                                      Splitter)>>),
                       FALSE))

\* UtteranceConfusionNetwork.lower (lines 656-665)
LowerOf(self) ==
    [self EXCEPT
        !.cn = [widx \in DOMAIN @ |->
                   [i \in DOMAIN @[widx] |-> [@[widx][i] EXCEPT !.w = LowerWord(@)]]],
        !.wordset = {LowerWord(word) : word \in @}]

\* UtteranceConfusionNetwork.sort (lines 1147-1151)
SortOf(self) ==
    [self EXCEPT !.cn = [i \in DOMAIN @ |-> SortedHyps(@[i])]]

\* the loop of lines 1085-1102 from slot k on: [cn, err]
RECURSIVE PruneFrom(_, _, _)
PruneFrom(cn, k, prune_prob) ==
    IF k > Len(cn) THEN [cn |-> <<>>, err |-> "none"]
    ELSE LET alts == cn[k]
             pruned_alts == SelectSeq(alts, LAMBDA h : ~Less(h.p, prune_prob))
             rest == PruneFrom(cn, k + 1, prune_prob)
         IN IF alts = <<>> THEN [cn |-> <<>>, err |-> "IndexError"]
            ELSE IF alts[1].w = <<>> /\ Less(Plus(One, <<-prune_prob[1], prune_prob[2]>>),
                                             alts[1].p)
            THEN rest
            ELSE IF pruned_alts = <<>> THEN [cn |-> <<>>, err |-> "IndexError"]
            ELSE IF pruned_alts[1].w = <<>> /\ Len(pruned_alts) = 1
            THEN rest
            ELSE [cn |-> <<alts>> \o rest.cn, err |-> rest.err]

\* UtteranceConfusionNetwork.prune (lines 1083-1105): [net, err]
PruneOf(self, prune_prob) ==
    LET pruned == PruneFrom(self.cn, 1, prune_prob)
    IN IF pruned.err # "none" THEN [net |-> self, err |-> pruned.err]
       ELSE [net |-> [self EXCEPT
                        !.cn = pruned.cn,
                        !.wordset = UNION {{pruned.cn[i][j].w : j \in DOMAIN pruned.cn[i]} :
                                              i \in DOMAIN pruned.cn}],
             err |-> "none"]


(***************************************************************************)
(* Calls on the confusion network under study.  A call of replace or       *)
(* phrase2category_label that returns a copy leaves two objects; the model *)
(* goes on with the one returned and keeps the receiver in last.post.      *)
(***************************************************************************)
a == <<"a">>

b == <<"b">>

A == <<"A">>

\* the empty word, a silence
sil == <<>>

\* the alternatives handed to add, as <<weight, word>> pairs
AddInputs == {<< <<1, a>>, <<1, b>> >>,
              << <<1, b>>, <<2, a>> >>,
              << <<2, sil>>, <<1, A>> >>}

CnPhrases == {ListOf(ws) : ws \in SeqsOf({a, b}, 1, 2)}

CnReplacements == {ListOf(<<>>), ListOf(<<b>>), ListOf(<<b, a>>)}

Catlabs == {<<A>>}

PruneProbs == {<<1, 2>>}

\* the number of long links of an instance
RECURSIVE LinkCount(_)
LinkCount(links) ==
    IF links = <<>> THEN 0 ELSE Len(links[1]) + LinkCount(Tail(links))

CnAdd(hyps) ==
    /\ mode = "cn"
    /\ Idle
    /\ ncalls < MaxCalls
    /\ Len(net.cn) < MaxSlots
    /\ LET r == Add(net, hyps)
       IN /\ net' = r.net
          /\ last' = [NoCall EXCEPT !.op = "add", !.err = r.err,
                                    !.pre = net, !.post = r.net, !.same = TRUE]
    /\ ncalls' = ncalls + 1
    /\ UNCHANGED <<restvars, nbvars, mode, lists, utts>>

\* the caller of replace or phrase2category_label goes on with the object
\* returned, r being the outcome of the call
CnReturn(op, phrase, repl, r) ==
    /\ LinkCount(r.replaced.long_links) <= MaxLinks
    /\ net' = IF r.err = "none" THEN r.replaced ELSE r.self
    /\ last' = [NoCall EXCEPT !.op = op, !.phrase = phrase, !.repl = repl,
                              !.ret = r.repl_idxs, !.err = r.err,
                              !.pre = net, !.post = r.self, !.same = r.same]

CnReplace(phrase, replacement) ==
    /\ mode = "cn"
    /\ Idle
    /\ ncalls < MaxCalls
    /\ CnReturn("replace", phrase, replacement,
                ReplaceOf(net, phrase, replacement, FALSE))
    /\ ncalls' = ncalls + 1
    /\ UNCHANGED <<restvars, nbvars, mode, lists, utts>>

CnPhrase2CategoryLabel(phrase, catlab) ==
    /\ mode = "cn"
    /\ Idle
    /\ ncalls < MaxCalls
    /\ CnReturn("phrase2category_label", phrase, catlab,
                Phrase2CategoryLabelOf(net, phrase, catlab))
    /\ ncalls' = ncalls + 1
    /\ UNCHANGED <<restvars, nbvars, mode, lists, utts>>

CnPrune(prune_prob) ==
    /\ mode = "cn"
    /\ Idle
    /\ ncalls < MaxCalls
    /\ LET r == PruneOf(net, prune_prob)
       IN /\ net' = r.net
          /\ last' = [NoCall EXCEPT !.op = "prune", !.repl = prune_prob, !.err = r.err,
                                    !.pre = net, !.post = r.net, !.same = TRUE]
    /\ ncalls' = ncalls + 1
    /\ UNCHANGED <<restvars, nbvars, mode, lists, utts>>

CnLower ==
    /\ mode = "cn"
    /\ Idle
    /\ ncalls < MaxCalls
    /\ net' = LowerOf(net)
    /\ last' = [NoCall EXCEPT !.op = "lower", !.pre = net, !.post = LowerOf(net),
                              !.same = TRUE]
    /\ ncalls' = ncalls + 1
    /\ UNCHANGED <<restvars, nbvars, mode, lists, utts>>

CnSort ==
    /\ mode = "cn"
    /\ Idle
    /\ ncalls < MaxCalls
    /\ net' = SortOf(net)
    /\ last' = [NoCall EXCEPT !.op = "sort", !.pre = net, !.post = SortOf(net),
                              !.same = TRUE]
    /\ ncalls' = ncalls + 1
    /\ UNCHANGED <<restvars, nbvars, mode, lists, utts>>

CnNormalise ==
    /\ mode = "cn"
    /\ Idle
    /\ ncalls < MaxCalls
    /\ LET r == Normalise(net)
       IN /\ net' = r.net
          /\ last' = [NoCall EXCEPT !.op = "normalise", !.err = r.err,
                                    !.pre = net, !.post = r.net, !.same = TRUE]
    /\ ncalls' = ncalls + 1
    /\ UNCHANGED <<restvars, nbvars, mode, lists, utts>>

CnFind(phrase) ==
    /\ mode = "cn"
    /\ Idle
    /\ last' = [NoCall EXCEPT !.op = "find", !.phrase = phrase,
                              !.ret = CnFindOf(net, phrase)]
    /\ UNCHANGED <<restvars, nbvars, mode, lists, utts, net, ncalls>>

CnIndex(phrase) ==
    /\ mode = "cn"
    /\ Idle
    /\ LET r == CnIndexOf(net, phrase)
       IN last' = [NoCall EXCEPT !.op = "index", !.phrase = phrase,
                                 !.ret = r.ret, !.err = r.err]
    /\ UNCHANGED <<restvars, nbvars, mode, lists, utts, net, ncalls>>

InitCn ==
    /\ NoSearch
    /\ NoRest
    /\ mode = "cn"
    /\ lists = [l \in ListIds |-> <<>>]
    /\ utts = [u \in UttIds |-> NoUtt]
    /\ net = EmptyNet
    /\ ncalls = 0
    /\ last = NoCall

NextCn ==
    \/ \E hyps \in AddInputs : CnAdd(hyps)
    \/ \E phrase \in CnPhrases : \E replacement \in CnReplacements :
          CnReplace(phrase, replacement)
    \/ \E phrase \in CnPhrases : \E catlab \in Catlabs :
          CnPhrase2CategoryLabel(phrase, catlab)
    \/ \E prune_prob \in PruneProbs : CnPrune(prune_prob)
    \/ CnLower
    \/ CnSort
    \/ CnNormalise
    \/ \E phrase \in CnPhrases : CnFind(phrase)
    \/ \E phrase \in CnPhrases : CnIndex(phrase)
    \/ Continue

SpecCn == InitCn /\ [][NextCn]_vars


InitUtt ==
    /\ NoSearch
    /\ NoRest
    /\ mode = "utt"
    /\ lists = [l \in ListIds |-> <<>>]
    /\ utts = [u \in UttIds |-> NoUtt]
    /\ net = EmptyNet
    /\ ncalls = 0
    /\ last = NoCall

NextUtt ==
    \/ \E text \in Texts : UttNew(text)
    \/ \E u \in UttIds : \E utt \in WordLists : UttSet(u, utt)
    \/ \E u \in UttIds : \E v \in UttIds : UttSetFrom(u, v)
    \/ \E v \in UttIds : FromUtterance(v)
    \/ \E u \in UttIds : UttLower(u)
    \/ \E u \in UttIds : \E phrase \in Phrases : UttFind(u, phrase)
    \/ \E u \in UttIds : \E phrase \in Phrases : UttIndex(u, phrase)
    \/ \E u \in UttIds : \E orig \in Phrases : \E replacement \in Replacements :
          UttReplace(u, orig, replacement)
    \/ Continue

SpecUtt == InitUtt /\ [][NextUtt]_vars

\* the objects index and find are called on, an Utterance or a confusion
\* network, with the calls that build and reshape them
InitIndex == InitUtt \/ InitCn

NextIndex ==
    \/ \E text \in Texts : UttNew(text)
    \/ \E u \in UttIds : \E utt \in WordLists : UttSet(u, utt)
    \/ \E v \in UttIds : FromUtterance(v)
    \/ \E u \in UttIds : UttLower(u)
    \/ \E u \in UttIds : \E phrase \in Phrases : UttFind(u, phrase)
    \/ \E u \in UttIds : \E phrase \in Phrases : UttIndex(u, phrase)
    \/ \E hyps \in AddInputs : CnAdd(hyps)
    \/ \E phrase \in CnPhrases : \E replacement \in CnReplacements :
          CnReplace(phrase, replacement)
    \/ \E prune_prob \in PruneProbs : CnPrune(prune_prob)
    \/ CnLower
    \/ CnNormalise
    \/ \E phrase \in CnPhrases : CnFind(phrase)
    \/ \E phrase \in CnPhrases : CnIndex(phrase)
    \/ Continue

SpecIndex == InitIndex /\ [][NextIndex]_vars

(***************************************************************************)
(* UtteranceNBList: the list n_best of [prob, utt] entries, the most       *)
(* probable first.  The base class NBList (alex.ml.hypothesis) is          *)
(* described by its specification: add keeps the list ordered by           *)
(* non-increasing probability, add_other adds the catch-all hypothesis     *)
(* with the probability mass the others leave, once.                       *)
(***************************************************************************)
\* the longest n_best list built by add calls
MaxHyps == 3

\* the string '__other__'
OtherText == <<"_", "_", "o", "t", "h", "e", "r", "_", "_">>

\* Utterance.__eq__ with a string (lines 103-108) for the string '__other__'
IsOther(utt) == utt = Split(OtherText)

\* 1 - x, or 0 if that is negative
Rest(x) == IF Less(One, x) THEN Zero ELSE Plus(One, <<-x[1], x[2]>>)

\* NBList.add: the entry goes behind the entries at least as probable
RECURSIVE NBListAdd(_, _, _)
NBListAdd(l, prob, fact) ==
    IF l = <<>> THEN <<[prob |-> prob, utt |-> fact]>>
    ELSE IF Less(l[1].prob, prob) THEN <<[prob |-> prob, utt |-> fact]>> \o l
    ELSE <<l[1]>> \o NBListAdd(Tail(l), prob, fact)

\* NBList.add_other: other is added with the mass left, unless it is there
NBListAddOther(l, other) ==
    IF \E k \in DOMAIN l : l[k].utt = other THEN l
    ELSE NBListAdd(l, Rest(SumOf([k \in DOMAIN l |-> l[k].prob])), other)

\* UtteranceNBList.add_other (lines 502-508)
AddOther(l) == NBListAddOther(l, Split(OtherText))

\* a get_best that returns the top entry whatever it is
GetBestTop(l) ==
    IF l = <<>> THEN [ret |-> <<>>, err |-> "IndexError"]
    ELSE [ret |-> l[1].utt, err |-> "none"]

\* UtteranceNBList.get_best (lines 482-485): [ret, err]
GetBest(l) ==
    IF l = <<>> THEN [ret |-> <<>>, err |-> "IndexError"]
    ELSE IF IsOther(l[1].utt)
    THEN IF Len(l) < 2 THEN [ret |-> <<>>, err |-> "IndexError"]
         ELSE [ret |-> l[2].utt, err |-> "none"]
    ELSE [ret |-> l[1].utt, err |-> "none"]

\* the hypotheses added: a probability and the surface of an Utterance
HypProbs == {<<1, 5>>, <<3, 10>>, <<1, 2>>}

HypTexts == {<<>>, <<"A">>, <<"a", Blank, "A">>}

\* nblist.add(prob, Utterance(text))
NbListAdd(prob, text) ==
    /\ mode = "nblist"
    /\ Idle
    /\ Len(SelectSeq(n_best, LAMBDA e : ~IsOther(e.utt))) < MaxHyps
    /\ n_best' = NBListAdd(n_best, prob, Split(text))
    /\ last' = [NoCall EXCEPT !.op = "add", !.pre = n_best]
    /\ UNCHANGED <<restvars, mode, lists, utts, net, ncalls, open_hyp, closed_hyp, iters,
                   limit, pc>>

\* nblist.add_other()
NbListAddOther ==
    /\ mode = "nblist"
    /\ Idle
    /\ n_best' = AddOther(n_best)
    /\ last' = [NoCall EXCEPT !.op = "add_other", !.pre = n_best]
    /\ UNCHANGED <<restvars, mode, lists, utts, net, ncalls, open_hyp, closed_hyp, iters,
                   limit, pc>>

\* nblist.get_best()
NbListGetBest ==
    /\ mode = "nblist"
    /\ Idle
    /\ LET r == GetBest(n_best)
       IN last' = [NoCall EXCEPT !.op = "get_best", !.ret = r.ret, !.err = r.err,
                                 !.pre = n_best]
    /\ UNCHANGED <<restvars, mode, lists, utts, net, ncalls, nbvars>>

InitNBList ==
    /\ NoSearch
    /\ NoRest
    /\ mode = "nblist"
    /\ lists = [l \in ListIds |-> <<>>]
    /\ utts = [u \in UttIds |-> NoUtt]
    /\ net = EmptyNet
    /\ ncalls = 0
    /\ last = NoCall

NextNBList ==
    \/ \E prob \in HypProbs : \E text \in HypTexts : NbListAdd(prob, text)
    \/ NbListAddOther
    \/ NbListGetBest
    \/ Continue

SpecNBList == InitNBList /\ [][NextNBList]_vars

(***************************************************************************)
(* UtteranceConfusionNetwork.get_utterance_nblist: the expansion of the    *)
(* lattice net into its most probable hypotheses.  A hypothesis index      *)
(* (hyp_index) holds one 0-based alternative index per slot; an entry of   *)
(* open_hyp or closed_hyp is [prob, hyp_index].  closed_hyp lists the      *)
(* entries of the code's dictionary in the order they were entered.        *)
(* Probabilities are exact rationals.                                      *)
(***************************************************************************)
\* the largest n get_utterance_nblist is called with
MaxN == 6

\* get_prob (lines 865-870): the product over izip(hyp_index, self._cn)
RECURSIVE GetProbFrom(_, _, _)
GetProbFrom(self, hyp_index, k) ==
    IF k > Len(hyp_index) \/ k > Len(self.cn) THEN One
    ELSE Times(self.cn[k][hyp_index[k] + 1].p, GetProbFrom(self, hyp_index, k + 1))

GetProb(self, hyp_index) == GetProbFrom(self, hyp_index, 1)

\* the candidates that step to the last alternative of a slot are left out
AdmissibleBelow(self, hyp_index, k) == hyp_index[k] + 2 < Len(self.cn[k])

\* get_next_worse_candidates, the test of line 1004: wh[i] is in range
Admissible(self, hyp_index, k) == hyp_index[k] + 1 < Len(self.cn[k])

\* get_next_worse_candidates (lines 997-1011): hyp_index with one index
\* increased by one, for every slot where that stays in range, in slot order
GetNextWorseCandidates(self, hyp_index) ==
    LET slots == SelectSeq([k \in DOMAIN hyp_index |-> k],
                           LAMBDA k : Admissible(self, hyp_index, k))
    IN [j \in DOMAIN slots |-> [hyp_index EXCEPT ![slots[j]] = @ + 1]]

\* x < y on tuples of integers
RECURSIVE IndexLess(_, _)
IndexLess(x, y) ==
    IF y = <<>> THEN FALSE
    ELSE IF x = <<>> THEN TRUE
    ELSE IF x[1] # y[1] THEN x[1] < y[1]
    ELSE IndexLess(Tail(x), Tail(y))

\* (prob, hyp_index) tuples: x > y
OpenGreater(x, y) ==
    Less(y.prob, x.prob) \/ (x.prob = y.prob /\ IndexLess(y.hyp_index, x.hyp_index))

\* open_hyp.sort(reverse=True) (line 1058), a stable insertion sort
RECURSIVE InsertOpen(_, _)
InsertOpen(l, x) ==
    IF l = <<>> THEN <<x>>
    ELSE IF OpenGreater(x, l[1]) THEN <<x>> \o l
    ELSE <<l[1]>> \o InsertOpen(Tail(l), x)

\* a frontier left in the order of insertion
Unsorted(l) == l

RECURSIVE SortedOpen(_)
SortedOpen(l) ==
    IF l = <<>> THEN <<>>
    ELSE InsertOpen(SortedOpen(SubSeq(l, 1, Len(l) - 1)), l[Len(l)])

\* the keys of the dictionary closed_hyp
ClosedKeys(closed) == {closed[k].hyp_index : k \in DOMAIN closed}

\* lines 1053-1056: the candidates of the hypothesis closed, with their
\* probabilities
Candidates(self, hyp_index) ==
    LET worse == GetNextWorseCandidates(self, hyp_index)
    IN [j \in DOMAIN worse |-> [prob |-> GetProb(self, worse[j]), hyp_index |-> worse[j]]]

\* a loop that goes on until the frontier is empty
RunningToEmpty(open, i, n) == open # <<>>

\* the loop condition of line 1047
Running(open, i, n) == open # <<>> /\ i < n

\* get_utterance_nblist(n) is called on the lattice self; lines 1039-1045:
\* the frontier holds the best hypothesis, all indices 0
NbStart(self, n) ==
    /\ mode = "nbest"
    /\ pc = "none"
    /\ net' = self
    /\ limit' = n
    /\ LET best_hyp == [k \in DOMAIN self.cn |-> 0]
       IN open_hyp' = <<[prob |-> GetProb(self, best_hyp), hyp_index |-> best_hyp]>>
    /\ closed_hyp' = <<>>
    /\ iters' = 0
    /\ pc' = "loop"
    /\ UNCHANGED <<restvars, mode, lists, utts, ncalls, last, n_best>>

\* one turn of the loop of lines 1047-1058
NbExpand ==
    /\ mode = "nbest"
    /\ pc = "loop"
    /\ Running(open_hyp, iters, limit)
    /\ iters' = iters + 1
    /\ LET current == Head(open_hyp)
       IN IF current.hyp_index \notin ClosedKeys(closed_hyp)
          THEN /\ closed_hyp' = Append(closed_hyp, current)
               /\ open_hyp' = SortedOpen(Tail(open_hyp)
                                         \o Candidates(net, current.hyp_index))
          ELSE /\ closed_hyp' = closed_hyp
               /\ open_hyp' = Tail(open_hyp)
    /\ UNCHANGED <<restvars, mode, lists, utts, net, ncalls, last, limit, pc, n_best>>

\* get_hyp_index_utterence (lines 1014-1017): the word list of the
\* Utterance made of the alternatives chosen
GetHypIndexUtterence(self, hyp_index) ==
    Split(Join([k \in 1..Min(Len(hyp_index), Len(self.cn)) |->
                   self.cn[k][hyp_index[k] + 1].w],
               <<Blank>>))

\* lines 1060-1062: the closed hypotheses are added to the n-best list, here
\* in the order they were closed
RECURSIVE AddClosed(_, _)
AddClosed(self, closed) ==
    IF closed = <<>> THEN <<>>
    ELSE NBListAdd(AddClosed(self, SubSeq(closed, 1, Len(closed) - 1)),
                   closed[Len(closed)].prob,
                   GetHypIndexUtterence(self, closed[Len(closed)].hyp_index))

\* the loop of line 1047 ends and the n-best list is built (lines 1060-1073):
\* merge and sort do nothing, normalise is add_other
NbLeave ==
    /\ mode = "nbest"
    /\ pc = "loop"
    /\ ~Running(open_hyp, iters, limit)
    /\ n_best' = AddOther(AddClosed(net, closed_hyp))
    /\ pc' = "done"
    /\ UNCHANGED <<restvars, mode, lists, utts, net, ncalls, last, open_hyp, closed_hyp,
                   iters, limit>>

\* the alternatives of the slots of the lattices expanded
NbInputs == AddInputs \cup {<< <<3, a>>, <<2, b>>, <<1, A>> >>}

\* the lattice add builds from the slots given, sorted or not
RECURSIVE Built(_)
Built(slots) ==
    IF slots = <<>> THEN EmptyNet
    ELSE Add(Built(SubSeq(slots, 1, Len(slots) - 1)), slots[Len(slots)]).net

Lattices ==
    LET built == {Built(slots) : slots \in SeqsOf(NbInputs, 0, MaxSlots)}
    IN built \cup {SortOf(self) : self \in built}

InitNbest ==
    /\ NoSearch
    /\ NoRest
    /\ mode = "nbest"
    /\ lists = [l \in ListIds |-> <<>>]
    /\ utts = [u \in UttIds |-> NoUtt]
    /\ net = EmptyNet
    /\ ncalls = 0
    /\ last = NoCall

NextNbest ==
    \/ \E self \in Lattices : \E n \in 0..MaxN : NbStart(self, n)
    \/ NbExpand
    \/ NbLeave

SpecNbest == InitNbest /\ [][NextNbest]_vars

(***************************************************************************)
(* N-grams and features: Utterance.iter_ngrams, UtteranceFeatures.parse    *)
(* and UtteranceConfusionNetworkFeatures.parse.  A feature is a key with a *)
(* weight; a key is [str, words]: the string '__empty__' (str) or a tuple  *)
(* of words.  The mapping of the base class Features (alex.ml.features) is *)
(* described by its specification: a key not present has the weight 0 and  *)
(* += adds to the weight of the key.                                       *)
(***************************************************************************)
\* the longest utterance n-grams and features are taken from
MaxWords == 3

\* the largest n of iter_ngrams and the largest size of the features
MaxSize == 5

\* SENTENCE_START and SENTENCE_END (lines 23-24)
SENTENCE_START == <<"<", "s", ">">>

SENTENCE_END == <<"<", "/", "s", ">">>

\* Python's l[-k:] for k >= 0: the last k elements, and all of l for k = 0
LastOf(l, k) ==
    IF k = 0 THEN l ELSE SubSeq(l, Max(Len(l) - k, 0) + 1, Len(l))

\* line 261: self._utterance[-(n - 1):] + [SENTENCE_END]
LastWindow(utt, n) == LastOf(utt, n - 1) \o <<SENTENCE_END>>

\* Utterance.iter_ngrams (lines 245-261): the windows yielded, in order
IterNgrams(utt, n, with_boundaries) ==
    LET min_len == n - (IF with_boundaries THEN 2 ELSE 0)
    IN IF Len(utt) <= min_len
       THEN IF Len(utt) = min_len
            THEN IF with_boundaries
                 THEN << <<SENTENCE_START>> \o utt \o <<SENTENCE_END>> >>
                 ELSE <<utt>>
            ELSE <<>>
       ELSE (IF with_boundaries
             THEN << <<SENTENCE_START>> \o Slice(utt, 0, n - 1) >> ELSE <<>>)
            \o [start_idx \in 1..Max(Len(utt) - n + 1, 0) |->
                   Slice(utt, start_idx - 1, start_idx - 1 + n)]
            \o (IF with_boundaries THEN <<LastWindow(utt, n)>> ELSE <<>>)

\* the key '__empty__'
EmptyKey == [str |-> TRUE, words |-> <<<<"_", "_", "e", "m", "p", "t", "y", "_", "_">>>>]

\* the key tuple(ngram)
TupleKey(ngram) == [str |-> FALSE, words |-> ngram]

\* the key (ngram[0], '*k', ngram[k + 1]) of a skip n-gram
SkipKey(ngram, k) ==
    TupleKey(<<ngram[1], <<"*", IF k = 1 THEN "1" ELSE "2">>, ngram[k + 2]>>)

\* self.features[key] += weight
Bump(features, key, weight) ==
    IF key \in DOMAIN features
    THEN [features EXCEPT ![key] = Plus(@, weight)]
    ELSE [k \in DOMAIN features \cup {key} |->
             IF k = key THEN weight ELSE features[k]]

\* features that record the keys seen, each with the weight 1
SetAll(features, keys) ==
    [k \in DOMAIN features \cup Range(keys) |-> One]

\* self.features[key] += 1. for every key of keys
RECURSIVE BumpAll(_, _)
BumpAll(features, keys) ==
    IF keys = <<>> THEN features
    ELSE BumpAll(Bump(features, keys[1], One), Tail(keys))

\* the features counted for the n-grams of one length (lines 417-433)
NgramKeys(utt, n, with_boundaries) ==
    LET ngrams == IterNgrams(utt, n, with_boundaries)
    IN [j \in DOMAIN ngrams |-> TupleKey(ngrams[j])]
       \o (IF n \in {3, 4}
           THEN [j \in DOMAIN ngrams |-> SkipKey(ngrams[j], n - 2)] ELSE <<>>)

RECURSIVE NgramKeysUpto(_, _, _, _)
NgramKeysUpto(utt, n, size, with_boundaries) ==
    IF n > size THEN <<>>
    ELSE NgramKeys(utt, n, with_boundaries)
         \o NgramKeysUpto(utt, n + 1, size, with_boundaries)

\* a parse that refuses every type but 'ngram' before looking at the input
ParseStrict(features, type, size, utt, with_boundaries) ==
    IF type # "ngram"
    THEN [features |-> features, err |-> "NotImplementedError"]
    ELSE IF utt = <<>>
    THEN [features |-> Bump(features, EmptyKey, One), err |-> "none"]
    ELSE [features |-> BumpAll(features,
                          [j \in DOMAIN utt |-> TupleKey(<<utt[j]>>)]
                          \o NgramKeysUpto(utt, 2, size, with_boundaries)),
          err |-> "none"]

\* UtteranceFeatures.parse (lines 408-442): [features, err]
Parse(features, type, size, utt, with_boundaries) ==
    IF utt = <<>>
    THEN [features |-> Bump(features, EmptyKey, One), err |-> "none"]
    ELSE IF type = "ngram"
    THEN [features |-> BumpAll(features,
                          [j \in DOMAIN utt |-> TupleKey(<<utt[j]>>)]
                          \o NgramKeysUpto(utt, 2, size, with_boundaries)),
          err |-> "none"]
    ELSE [features |-> features, err |-> "NotImplementedError"]

\* UtteranceConfusionNetwork.isempty (lines 685-686)
CnIsEmpty(self) ==
    self.cn = <<>> /\ \A k \in DOMAIN self.long_links : self.long_links[k] = <<>>

\* self.features[(word, )] += prob for the alternatives from slot k on
\* (lines 1337-1339)
RECURSIVE BumpAlts(_, _, _)
BumpAlts(features, alts, j) ==
    IF j > Len(alts) THEN features
    ELSE BumpAlts(Bump(features, TupleKey(<<alts[j].w>>), alts[j].p), alts, j + 1)

RECURSIVE BumpSlots(_, _, _)
BumpSlots(features, cn, k) ==
    IF k > Len(cn) THEN features
    ELSE BumpSlots(BumpAlts(features, cn[k], 1), cn, k + 1)

\* UtteranceConfusionNetworkFeatures.parse (lines 1331-1364) of an
\* extractor of size 1, which takes no n-grams of length 2 or more:
\* [features, err]
ConfnetParse(features, type, confnet) ==
    LET parsed ==
            IF CnIsEmpty(confnet)
            THEN [features |-> Bump(features, EmptyKey, One), err |-> "none"]
            ELSE IF type = "ngram"
            THEN [features |-> BumpSlots(features, confnet.cn, 1), err |-> "none"]
            ELSE [features |-> features, err |-> "NotImplementedError"]
    IN IF parsed.err = "none" /\ DOMAIN parsed.features = {}
       THEN [features |-> parsed.features,
             err |-> "UtteranceConfusionNetworkException"]
       ELSE parsed

\* the feature types asked for
FeatureTypes == {"ngram", "nbest"}

\* the utterances n-grams and features are taken from
Utterances == SeqsOf({a, b}, 0, MaxWords)

\* the confusion networks features are taken from: built by add and sort,
\* pruned or not
Confnets ==
    Lattices \cup {PruneOf(self, prune_prob).net :
                      self \in Lattices, prune_prob \in PruneProbs}

\* the mapping of a new extractor
NoFeatures == [k \in {} |-> Zero]

\* list(utterance.iter_ngrams(n, with_boundaries))
UttIterNgrams(utt, n, with_boundaries) ==
    /\ mode = "features"
    /\ Idle
    /\ last' = [op |-> "iter_ngrams", input |-> utt, size |-> n,
                with_boundaries |-> with_boundaries, type |-> "none",
                ret |-> IterNgrams(utt, n, with_boundaries), err |-> "none"]
    /\ UNCHANGED <<restvars, mode, lists, utts, net, ncalls, nbvars>>

\* a new UtteranceFeatures(type, size) parses an utterance
UttParse(type, size, utt, with_boundaries) ==
    /\ mode = "features"
    /\ Idle
    /\ LET r == Parse(NoFeatures, type, size, utt, with_boundaries)
       IN last' = [op |-> "parse", input |-> utt, size |-> size,
                   with_boundaries |-> with_boundaries, type |-> type,
                   ret |-> r.features, err |-> r.err]
    /\ UNCHANGED <<restvars, mode, lists, utts, net, ncalls, nbvars>>

\* a new UtteranceConfusionNetworkFeatures(type, 1) parses a confnet
ConfnetFeatures(type, confnet) ==
    /\ mode = "features"
    /\ Idle
    /\ LET r == ConfnetParse(NoFeatures, type, confnet)
       IN last' = [op |-> "confnet_parse", input |-> confnet, size |-> 1,
                   with_boundaries |-> TRUE, type |-> type,
                   ret |-> r.features, err |-> r.err]
    /\ UNCHANGED <<restvars, mode, lists, utts, net, ncalls, nbvars>>

InitFeatures ==
    /\ NoSearch
    /\ NoRest
    /\ mode = "features"
    /\ lists = [l \in ListIds |-> <<>>]
    /\ utts = [u \in UttIds |-> NoUtt]
    /\ net = EmptyNet
    /\ ncalls = 0
    /\ last = NoCall

NextFeatures ==
    \/ \E utt \in Utterances : \E n \in 1..MaxSize : \E with_boundaries \in BOOLEAN :
          UttIterNgrams(utt, n, with_boundaries)
    \/ \E type \in FeatureTypes : \E size \in 1..MaxSize : \E utt \in Utterances :
          \E with_boundaries \in BOOLEAN : UttParse(type, size, utt, with_boundaries)
    \/ \E type \in FeatureTypes : \E confnet \in Confnets :
          ConfnetFeatures(type, confnet)
    \/ Continue

SpecFeatures == InitFeatures /\ [][NextFeatures]_vars

(***************************************************************************)
(* _replace step by step: one action for the search of the first           *)
(* occurrence, one for each turn of the loop over the occurrences, one for *)
(* the return; and find next to find_unaware.                              *)
(***************************************************************************)
\* the loop of lines 711-718 of find_unaware from slot widx on: states[k]
\* tells whether a prefix of k - 1 words of the phrase ends just before
\* widx
RECURSIVE UnawareFrom(_, _, _, _, _)
UnawareFrom(self, phrase, widx, end, states) ==
    IF widx >= Min(end, Len(self.cn))
    THEN IF states[Len(states)] THEN end - Len(phrase.words) ELSE -1
    ELSE LET alts == self.cn[widx + 1]
             alt_words == {alts[j].w : j \in DOMAIN alts}
             new_states == [k \in 1..(Len(phrase.words) + 1) |->
                               IF k = 1 THEN TRUE
                               ELSE states[k - 1] /\ phrase.words[k - 1] \in alt_words]
         IN IF new_states[Len(new_states)]
            THEN widx - Len(phrase.words) + 1
            ELSE UnawareFrom(self, phrase, widx + 1, end, new_states)

\* UtteranceConfusionNetwork.find_unaware (lines 695-720) with start = 0,
\* end = None
FindUnaware(self, phrase) ==
    IF ~(\A k \in DOMAIN phrase.words : phrase.words[k] \in self.wordset)
    THEN -1
    ELSE UnawareFrom(self, phrase, 0, Len(self.cn),
                     [k \in 1..(Len(phrase.words) + 1) |-> k = 1])

\* the loop state of lines 744-753 before the first turn
NoEdits(copy) ==
    [net |-> copy.net, repl_idxs |-> <<>>, do_normalise |-> FALSE,
     update_wordset |-> FALSE, err |-> "none"]

\* add (lines 828-840) between two calls of replace
RepAdd(hyps) ==
    /\ mode = "replace"
    /\ Idle
    /\ rep.pc = "none"
    /\ ncalls < MaxCalls
    /\ Len(net.cn) < MaxSlots
    /\ LET r == Add(net, hyps)
       IN /\ net' = r.net
          /\ last' = [NoCall EXCEPT !.op = "add", !.err = r.err,
                                    !.pre = net, !.post = r.net, !.same = TRUE]
    /\ ncalls' = ncalls + 1
    /\ UNCHANGED <<nbvars, nlgvars, rep, abutts, mode, lists, utts>>

\* find, find_unaware and get_phrase_idxs of one phrase, side by side; none
\* of them changes the network
RepFind(phrase) ==
    /\ mode = "replace"
    /\ Idle
    /\ rep.pc = "none"
    /\ last' = [NoCall EXCEPT
                   !.op = "find", !.phrase = phrase, !.pre = net,
                   !.ret = [find |-> CnFindOf(net, phrase),
                            find_unaware |-> FindUnaware(net, phrase),
                            idxs |-> GetPhraseIdxs(net, phrase, 0, Len(net.cn), TRUE)]]
    /\ UNCHANGED <<nbvars, nlgvars, rep, abutts, mode, lists, utts, net, ncalls>>

\* _replace, lines 744-753: the first occurrence is looked for and, if
\* there is one, the receiver copied.  turns counts the turns of the loop,
\* from is the slot the last search started at, matched and before are the
\* occurrence edited in the last turn and the lattice it was found in
RepStart(phrase, replacement) ==
    /\ mode = "replace"
    /\ Idle
    /\ rep.pc = "none"
    /\ ncalls < MaxCalls
    /\ LinkCount(ReplaceOf(net, phrase, replacement, FALSE).replaced.long_links)
           <= MaxLinks
    /\ LET idxs == GetPhraseIdxs(net, phrase, 0, Len(net.cn), TRUE)
           copy == Replaced(net, idxs)
       IN rep' = [pc |-> "loop", phrase |-> phrase, replacement |-> replacement,
                  copy |-> copy, acc |-> NoEdits(copy), idxs |-> idxs,
                  turns |-> 0, from |-> 0, matched |-> <<>>, before |-> net]
    /\ UNCHANGED <<nbvars, nlgvars, abutts, mode, lists, utts, net, ncalls, last>>

\* a search for the next occurrence that starts at the match just edited
SearchAgainAt(start_widx) == start_widx

\* line 814: the slot the search for the next occurrence starts at
SearchOnFrom(start_widx) == start_widx + 1

\* one turn of the loop of lines 755-814: the occurrence found is edited
\* and the next one looked for; an exception leaves the loop
RepOccurrence ==
    /\ mode = "replace"
    /\ rep.pc = "loop"
    /\ rep.idxs # <<>>
    /\ rep.acc.err = "none"
    /\ LET acc == Edited(rep.acc, rep.idxs,
                         EditOccurrence(rep.acc.net, rep.idxs, rep.replacement, FALSE))
           start_widx == Abs(rep.idxs[1][1])
       IN rep' = [rep EXCEPT
                     !.acc = acc,
                     !.idxs = IF acc.err # "none" THEN <<>>
                              ELSE GetPhraseIdxs(acc.net, rep.phrase,
                                                 SearchOnFrom(start_widx),
                                                 Len(acc.net.cn), TRUE),
                     !.turns = @ + 1,
                     !.from = SearchOnFrom(start_widx),
                     !.matched = rep.idxs,
                     !.before = rep.acc.net]
    /\ UNCHANGED <<nbvars, nlgvars, abutts, mode, lists, utts, net, ncalls, last>>

\* lines 816-826, once no further occurrence is found: the caller goes on
\* with the lattice returned
RepReturn ==
    /\ mode = "replace"
    /\ rep.pc = "loop"
    /\ rep.idxs = <<>> \/ rep.acc.err # "none"
    /\ LET r == Finish(net, rep.copy, rep.acc)
       IN /\ net' = IF r.err = "none" THEN r.replaced ELSE r.self
          /\ last' = [NoCall EXCEPT !.op = "replace", !.phrase = rep.phrase,
                                    !.repl = rep.replacement,
                                    !.ret = r.repl_idxs, !.err = r.err,
                                    !.pre = net, !.post = r.self, !.same = r.same]
    /\ rep' = NoReplace
    /\ ncalls' = ncalls + 1
    /\ UNCHANGED <<nbvars, nlgvars, abutts, mode, lists, utts>>

\* the caller has taken the result of the last call and goes on
RepContinue ==
    /\ mode = "replace"
    /\ Continue

InitReplace ==
    /\ NoSearch
    /\ NoRest
    /\ mode = "replace"
    /\ lists = [l \in ListIds |-> <<>>]
    /\ utts = [u \in UttIds |-> NoUtt]
    /\ net = EmptyNet
    /\ ncalls = 0
    /\ last = NoCall

NextReplace ==
    \/ \E hyps \in AddInputs : RepAdd(hyps)
    \/ \E phrase \in CnPhrases : RepFind(phrase)
    \/ \E phrase \in CnPhrases : \E replacement \in CnReplacements :
          RepStart(phrase, replacement)
    \/ RepOccurrence
    \/ RepReturn
    \/ RepContinue

SpecReplace == InitReplace /\ [][NextReplace]_vars

(***************************************************************************)
(* Comparing utterances.  The right-hand side of a comparison is           *)
(* [kind, value]: an Utterance with its word list, a string with its       *)
(* characters, or a list of words.                                         *)
(***************************************************************************)
AsUtterance(utt) == [kind |-> "Utterance", value |-> utt]

AsList(l) == [kind |-> "list", value |-> l]

\* Utterance.__eq__ (lines 103-108), self given by its word list
UttEq(self, other) ==
    IF other.kind = "Utterance" THEN self = other.value
    ELSE IF other.kind = "basestring" THEN self = Split(other.value)
    ELSE FALSE

\* Utterance.__ne__ (lines 110-111) with an Utterance: __eq__ is handed
\* other.utterance, the word list
UttNe(self, other) == ~UttEq(self, AsList(other.value))

\* a == b and a != b for two utterances
UttCompare(x, y) ==
    /\ mode = "compare"
    /\ Idle
    /\ last' = [NoCall EXCEPT !.op = "compare", !.self = x, !.phrase = y,
                              !.ret = [eq |-> UttEq(x, AsUtterance(y)),
                                       ne |-> UttNe(x, AsUtterance(y))]]
    /\ UNCHANGED <<nbvars, restvars, mode, lists, utts, net, ncalls>>

CompareContinue ==
    /\ mode = "compare"
    /\ Continue

InitCompare ==
    /\ NoSearch
    /\ NoRest
    /\ mode = "compare"
    /\ lists = [l \in ListIds |-> <<>>]
    /\ utts = [u \in UttIds |-> NoUtt]
    /\ net = EmptyNet
    /\ ncalls = 0
    /\ last = NoCall

NextCompare ==
    \/ \E x \in Utterances : \E y \in Utterances : UttCompare(x, y)
    \/ CompareContinue

SpecCompare == InitCompare /\ [][NextCompare]_vars

(***************************************************************************)
(* AbstractedUtterance: an utterance that keeps the indices of the words   *)
(* put in for a phrase (_abstr_idxs, 0-based).  Objects are held by value: *)
(* replace builds the list of words and the list of indices of the object  *)
(* it returns anew and no list is changed in place afterwards.             *)
(***************************************************************************)
\* the number of AbstractedUtterance objects made
MaxObjs == 3

\* AbstractedUtterance(surface) (lines 270-273, 84-86)
AbstractedUtterance(surface) ==
    [utterance |-> Split(surface), wordset |-> Range(Split(surface)),
     abstr_idxs |-> <<>>]

\* the loop of lines 343-356 over self._abstr_idxs from the k-th index on:
\* [idxs, inserted_new], idxs being ab_replaced._abstr_idxs
RECURSIVE ShiftIdxs(_, _, _, _, _, _)
ShiftIdxs(abstr_idxs, k, startidx, len_orig, idxs, inserted_new) ==
    IF k > Len(abstr_idxs) THEN [idxs |-> idxs, inserted_new |-> inserted_new]
    ELSE LET idx == abstr_idxs[k]
             shift == 1 - len_orig
         IN IF idx >= startidx
            THEN LET with_new == IF inserted_new THEN idxs ELSE Append(idxs, startidx)
                 IN ShiftIdxs(abstr_idxs, k + 1, startidx, len_orig,
                              IF idx > startidx + len_orig
                              THEN Append(with_new, idx + shift)
                              ELSE with_new,
                              TRUE)
            ELSE ShiftIdxs(abstr_idxs, k + 1, startidx, len_orig,
                           Append(idxs, idx), inserted_new)

\* AbstractedUtterance.replace (lines 325-362): [startidx, same, self,
\* replaced], self the receiver after the call, replaced the object
\* returned, same whether they are one object.  The object returned is made
\* by AbstractedUtterance('') and given its words through the utterance
\* setter (lines 134-137, 286-290); the receiver is given the index list of
\* the object returned (line 361)
AbReplaceOf(self, orig, replacement) ==
    LET startidx == Find(self.utterance, self.wordset, orig)
    IN IF startidx = -1
       THEN [startidx |-> -1, same |-> TRUE, self |-> self, replaced |-> self]
       ELSE LET utt == Slice(self.utterance, 0, startidx) \o replacement
                       \o Slice(self.utterance, startidx + Len(orig),
                                Len(self.utterance))
                done == ShiftIdxs(self.abstr_idxs, 1, startidx, Len(orig),
                                  <<>>, FALSE)
                idxs == IF done.inserted_new THEN done.idxs
                        ELSE Append(done.idxs, startidx)
            IN [startidx |-> startidx, same |-> FALSE,
                self |-> [self EXCEPT !.abstr_idxs = idxs],
                replaced |-> [utterance |-> utt, wordset |-> Range(utt),
                              abstr_idxs |-> idxs]]

\* combined_el of lines 321-322: the category label and the phrase, joined
CombinedEl(phrase, catlab) ==
    Join(catlab, <<Blank>>) \o Splitter \o Join(phrase, <<Blank>>)

\* the surface strings, phrases, replacements and category labels of the
\* calls: "b a b", "a b a b"
AbTexts == {<<"b", Blank, "a", Blank, "b">>,
            <<"a", Blank, "b", Blank, "a", Blank, "b">>}

AbPhrases == {<<a>>, <<b>>, <<a, b>>}

AbReplacements == {<<A>>}

\* a new AbstractedUtterance
AbNew(surface) ==
    /\ mode = "abstracted"
    /\ Idle
    /\ abutts = <<>>
    /\ abutts' = <<AbstractedUtterance(surface)>>
    /\ last' = [NoCall EXCEPT !.op = "init", !.self = 1]
    /\ UNCHANGED <<nbvars, nlgvars, rep, mode, lists, utts, net, ncalls>>

\* the caller keeps the object a call on abutts[u] returned, r being the
\* outcome of the call
AbReturn(op, u, orig, replacement, r) ==
    /\ ~r.same => Len(abutts) < MaxObjs
    /\ abutts' = IF r.same THEN abutts
                 ELSE Append([abutts EXCEPT ![u] = r.self], r.replaced)
    /\ last' = [NoCall EXCEPT !.op = op, !.self = u, !.phrase = orig,
                              !.repl = replacement,
                              !.ret = [startidx |-> r.startidx,
                                       obj |-> IF r.same THEN u ELSE Len(abutts) + 1],
                              !.pre = abutts[u], !.same = r.same]

\* a call of replace (lines 325-362) on the object u
AbReplace(u, orig, replacement) ==
    /\ mode = "abstracted"
    /\ Idle
    /\ u \in DOMAIN abutts
    /\ AbReturn("replace", u, orig, replacement,
                AbReplaceOf(abutts[u], orig, replacement))
    /\ UNCHANGED <<nbvars, nlgvars, rep, mode, lists, utts, net, ncalls>>

\* a call of phrase2category_label (lines 316-323) on the object u
AbPhrase2CategoryLabel(u, phrase, catlab) ==
    /\ mode = "abstracted"
    /\ Idle
    /\ u \in DOMAIN abutts
    /\ AbReturn("phrase2category_label", u, phrase, <<CombinedEl(phrase, catlab)>>,
                AbReplaceOf(abutts[u], phrase, <<CombinedEl(phrase, catlab)>>))
    /\ UNCHANGED <<nbvars, nlgvars, rep, mode, lists, utts, net, ncalls>>

AbContinue ==
    /\ mode = "abstracted"
    /\ Continue

InitAbstracted ==
    /\ NoSearch
    /\ NoRest
    /\ mode = "abstracted"
    /\ lists = [l \in ListIds |-> <<>>]
    /\ utts = [u \in UttIds |-> NoUtt]
    /\ net = EmptyNet
    /\ ncalls = 0
    /\ last = NoCall

NextAbstracted ==
    \/ \E surface \in AbTexts : AbNew(surface)
    \/ \E u \in 1..MaxObjs : \E orig \in AbPhrases : \E replacement \in AbReplacements :
          AbReplace(u, orig, replacement)
    \/ \E u \in 1..MaxObjs : \E phrase \in AbPhrases : \E catlab \in Catlabs :
          AbPhrase2CategoryLabel(u, phrase, catlab)
    \/ AbContinue

SpecAbstracted == InitAbstracted /\ [][NextAbstracted]_vars

(***************************************************************************)
(* NLG (alex/components/hub/nlg.py): the process that turns the dialogue   *)
(* acts of the dialogue manager into text.  run() is modelled statement by *)
(* statement at the points where it reads from or writes to a connection   *)
(* or tests the close event; the hub and the other components act between  *)
(* any two of them.  A connection is a queue in each direction.            *)
(***************************************************************************)
\* the number of messages the hub and the dialogue manager send
MaxMsgs == 3

Silence == "silence()"

\* the dialogue acts of the dialogue manager
Das == {"hello()", Silence}

\* the names of the commands the hub sends
CommandNames == {"stop", "flush", "other"}

\* Command(...) as sent by the NLG process, from NLG to HUB
Command(name) == [type |-> "Command", name |-> name]

\* TTSText(text)
TTSText(text) == [type |-> "TTSText", text |-> text]

\* self.nlg.generate(da): the text of a dialogue act
Generate(da) == <<"text", da>>

\* what the hub and the dialogue manager may send, n being the serial number
\* of the message: commands, dialogue acts and an object that is neither
Messages(n) ==
    {[type |-> "Command", name |-> c, id |-> n] : c \in CommandNames}
    \cup {[type |-> "DMDA", da |-> da, id |-> n] : da \in Das}
    \cup {[type |-> "object", id |-> n]}

\* no dialogue act is being processed
NoDa == "None"

\* run() is running
Alive == nlg.pc \notin {"none", "returned", "raised"}

\* what the NLG process leaves alone
asrvars == <<mode, lists, utts, net, ncalls, last, nbvars, rep, abutts>>

\* what process_da sends on commands (lines 50-51, 66) and on text_out
\* (line 52) for a dialogue act
CommandsOf(da) ==
    IF da # Silence
    THEN <<Command("nlg_text_generated"), TTSText(Generate(da))>>
    ELSE <<Command("nlg_text_generated")>>

TextOutOf(da) == IF da # Silence THEN <<TTSText(Generate(da))>> ELSE <<>>

\* the hub sends a message on the commands connection
HubSend(msg) ==
    /\ mode = "nlg"
    /\ hub.sent < MaxMsgs
    /\ msg \in Messages(hub.sent + 1)
    /\ hub' = [hub EXCEPT !.commands_in = Append(@, msg), !.sent = @ + 1]
    /\ UNCHANGED <<asrvars, nlg>>

\* the dialogue manager sends a message on dialogue_act_in
DmSend(msg) ==
    /\ mode = "nlg"
    /\ hub.sent < MaxMsgs
    /\ msg \in Messages(hub.sent + 1)
    /\ hub' = [hub EXCEPT !.dialogue_act_in = Append(@, msg), !.sent = @ + 1]
    /\ UNCHANGED <<asrvars, nlg>>

\* another component sets the close event
CloseEventSet ==
    /\ mode = "nlg"
    /\ ~hub.close_event
    /\ hub' = [hub EXCEPT !.close_event = TRUE]
    /\ UNCHANGED <<asrvars, nlg>>

\* run, line 122-126: the test of the close event at the top of the loop
NlgCheckCloseEvent ==
    /\ mode = "nlg"
    /\ nlg.pc = "check"
    /\ nlg' = IF hub.close_event
              THEN [nlg EXCEPT !.pc = "returned", !.exit = "close_event"]
              ELSE [nlg EXCEPT !.pc = "commands"]
    /\ UNCHANGED <<asrvars, hub>>

\* the call of process_da from the place ret, msg being the DMDA received
\* (lines 100, 109)
CallProcessDa(msg, ret) ==
    [nlg EXCEPT !.pc = "process_da", !.ret = ret, !.da = msg.da,
                !.commands_mark = Len(hub.commands_out),
                !.text_mark = Len(hub.text_out),
                !.calls = @ + 1]

\* process_pending_commands, lines 79-102: one turn of the while loop, or
\* its end.  A stop() makes it return True and run() return (lines 85-86,
\* 131-132)
NlgCommand ==
    /\ mode = "nlg"
    /\ nlg.pc = "commands"
    /\ IF hub.commands_in = <<>>
       THEN /\ nlg' = [nlg EXCEPT !.pc = "read"]
            /\ UNCHANGED hub
       ELSE LET command == Head(hub.commands_in)
            IN /\ hub' = [hub EXCEPT !.commands_in = Tail(@)]
               /\ nlg' =
                    IF command.type = "Command" /\ command.name = "stop"
                    THEN [nlg EXCEPT !.pc = "returned", !.exit = "stop"]
                    ELSE IF command.type = "Command" /\ command.name = "flush"
                    THEN [nlg EXCEPT !.pc = "flush",
                                     !.doomed = @ \cup {hub.dialogue_act_in[k].id :
                                                   k \in DOMAIN hub.dialogue_act_in}]
                    ELSE IF command.type = "DMDA"
                    THEN CallProcessDa(command, "commands")
                    ELSE nlg
    /\ UNCHANGED asrvars

\* on with the loop of line 79 after a flush
AfterFlushLoop == "commands"

\* where process_pending_commands goes on after a flush: return False
\* (line 98), on to read_dialogue_act_write_text (line 135)
AfterFlush == "read"

\* process_pending_commands, lines 90-98: one turn of the loop that empties
\* dialogue_act_in, or its end, flushed() and the return
NlgFlush ==
    /\ mode = "nlg"
    /\ nlg.pc = "flush"
    /\ IF hub.dialogue_act_in # <<>>
       THEN /\ hub' = [hub EXCEPT !.dialogue_act_in = Tail(@)]
            /\ UNCHANGED nlg
       ELSE /\ hub' = [hub EXCEPT !.commands_out = Append(@, Command("flushed"))]
            /\ nlg' = [nlg EXCEPT !.pc = AfterFlush, !.flushes = @ + 1]
    /\ UNCHANGED asrvars

\* read_dialogue_act_write_text, lines 105-113, and the end of the turn of
\* run's loop; DMException for an input that is neither DMDA nor Command
\* leaves run through the handler of lines 145-148
NlgRead ==
    /\ mode = "nlg"
    /\ nlg.pc = "read"
    /\ IF hub.dialogue_act_in = <<>>
       THEN /\ nlg' = [nlg EXCEPT !.pc = "check"]
            /\ UNCHANGED hub
       ELSE LET data_da == Head(hub.dialogue_act_in)
            IN IF data_da.type = "DMDA"
               THEN /\ hub' = [hub EXCEPT !.dialogue_act_in = Tail(@)]
                    /\ nlg' = [CallProcessDa(data_da, "check")
                                 EXCEPT !.handled = @ \cup {data_da.id}]
               ELSE IF data_da.type = "Command"
               THEN /\ hub' = [hub EXCEPT !.dialogue_act_in = Tail(@)]
                    /\ nlg' = [nlg EXCEPT !.pc = "check"]
               ELSE /\ hub' = [hub EXCEPT !.dialogue_act_in = Tail(@),
                                          !.close_event = TRUE]
                    /\ nlg' = [nlg EXCEPT !.pc = "raised", !.exit = "DMException"]
    /\ UNCHANGED asrvars

\* on to the TTSText whatever the dialogue act
AfterGeneratedAlways(da) == "tts_commands"

\* where process_da goes on after nlg_text_generated(): to the TTSText on
\* commands (line 51), or back to its caller (line 66)
AfterGenerated(da) == IF da # Silence THEN "tts_commands" ELSE "return"

\* the return of process_da
Return == [nlg EXCEPT !.pc = nlg.ret, !.da = NoDa, !.ret = "none"]

\* process_da, lines 36-50 and 53-66: nlg_text_generated() on commands
NlgTextGenerated ==
    /\ mode = "nlg"
    /\ nlg.pc = "process_da"
    /\ hub' = [hub EXCEPT !.commands_out = Append(@, Command("nlg_text_generated"))]
    /\ nlg' = IF AfterGenerated(nlg.da) = "return" THEN Return
              ELSE [nlg EXCEPT !.pc = AfterGenerated(nlg.da)]
    /\ UNCHANGED asrvars

\* process_da, line 51: the text on commands
NlgTTSCommands ==
    /\ mode = "nlg"
    /\ nlg.pc = "tts_commands"
    /\ hub' = [hub EXCEPT !.commands_out = Append(@, TTSText(Generate(nlg.da)))]
    /\ nlg' = [nlg EXCEPT !.pc = "tts_text_out"]
    /\ UNCHANGED asrvars

\* process_da, line 52: the text on text_out
NlgTTSTextOut ==
    /\ mode = "nlg"
    /\ nlg.pc = "tts_text_out"
    /\ hub' = [hub EXCEPT !.text_out = Append(@, TTSText(Generate(nlg.da)))]
    /\ nlg' = Return
    /\ UNCHANGED asrvars

\* KeyboardInterrupt, wherever run() is (lines 141-144)
KeyboardInterrupt ==
    /\ mode = "nlg"
    /\ Alive
    /\ hub' = [hub EXCEPT !.close_event = TRUE]
    /\ nlg' = [nlg EXCEPT !.pc = "returned", !.exit = "KeyboardInterrupt"]
    /\ UNCHANGED asrvars

\* NLG.__init__ and the start of run(), lines 23-33, 116-120
InitNLG ==
    /\ NoSearch
    /\ rep = NoReplace
    /\ abutts = <<>>
    /\ mode = "nlg"
    /\ lists = [l \in ListIds |-> <<>>]
    /\ utts = [u \in UttIds |-> NoUtt]
    /\ net = EmptyNet
    /\ ncalls = 0
    /\ last = NoCall
    /\ nlg = [pc |-> "check", ret |-> "none", da |-> NoDa, exit |-> "none",
              commands_mark |-> 0, text_mark |-> 0, calls |-> 0, flushes |-> 0,
              handled |-> {}, doomed |-> {}]
    /\ hub = [commands_in |-> <<>>, commands_out |-> <<>>,
              dialogue_act_in |-> <<>>, text_out |-> <<>>,
              close_event |-> FALSE, sent |-> 0]

NextNLG ==
    \/ \E msg \in Messages(hub.sent + 1) : HubSend(msg)
    \/ \E msg \in Messages(hub.sent + 1) : DmSend(msg)
    \/ CloseEventSet
    \/ KeyboardInterrupt
    \/ NlgCheckCloseEvent
    \/ NlgCommand
    \/ NlgFlush
    \/ NlgRead
    \/ NlgTextGenerated
    \/ NlgTTSCommands
    \/ NlgTTSTextOut

SpecNLG == InitNLG /\ [][NextNLG]_vars

(***************************************************************************)
(* Properties of Utterance.                                                *)
(***************************************************************************)
\* the naive left-to-right scan: the smallest i with utt[i:i+len(phrase)]
\* equal to phrase, or -1
NaiveFind(utt, phrase) ==
    LET at == {i \in 0..(Len(utt) - Len(phrase)) :
                  Slice(utt, i, i + Len(phrase)) = phrase}
    IN IF at = {} THEN -1 ELSE Lowest(at)

\* C1: for every Utterance s and non-empty phrase p, s.find(p) returns what
\* the naive left-to-right scan of s's word list returns: the smallest index
\* at which p occurs, or -1 when it occurs nowhere (so never -1 for a phrase
\* that occurs), and -1 whenever a word of p is not in s's word set.
C1_FindIsNaiveScan ==
    (mode = "utt" /\ last.op = "find") =>
        /\ last.ret = NaiveFind(UttList(last.self), last.phrase)
        /\ (\E k \in DOMAIN last.phrase :
               last.phrase[k] \notin utts[last.self].wordset) => last.ret = -1

\* C2: Utterance.replace(orig, replacement), orig occurring leftmost at i,
\* returns a new Utterance with the word list s[:i] + replacement +
\* s[i+len(orig):] and leaves the receiver's word list and word set as they
\* were; when orig does not occur it returns the receiver itself.
C2_ReplaceFirstOccurrence ==
    (mode = "utt" /\ last.op = "replace") =>
        LET s == last.pre.utterance
            i == NaiveFind(s, last.phrase)
        IN /\ UttList(last.self) = s
           /\ utts[last.self].wordset = last.pre.wordset
           /\ IF i = -1
              THEN last.ret = last.self
              ELSE /\ last.ret # last.self
                   /\ utts[last.ret].lst # utts[last.self].lst
                   /\ UttList(last.ret) =
                          Slice(s, 0, i) \o last.repl
                          \o Slice(s, i + Len(last.phrase), Len(s))

\* C3: after any sequence of Utterance operations (construction from text,
\* the setter, lower, replace, from_utterance) the word set of every
\* Utterance object is the set of the elements of its word list.
C3_WordsetIsSetOfList ==
    mode = "utt" => \A u \in Live(utts) : utts[u].wordset = Range(UttList(u))


(***************************************************************************)
(* Properties of index and find.                                           *)
(***************************************************************************)
\* what find returns on the receiver of the last call for its phrase
FindOfLast ==
    IF mode = "utt"
    THEN Find(UttList(last.self), utts[last.self].wordset, last.phrase)
    ELSE CnFindOf(net, last.phrase)

\* C4: index(phrase), on an Utterance and on a confusion network, returns
\* what find(phrase) returns when that is not -1 and raises ValueError
\* exactly when find(phrase) is -1; find itself raises nothing and returns
\* -1 or an index; neither call changes the object.
C4_IndexIsFindOrValueError ==
    /\ [](last.op = "index" =>
             IF FindOfLast = -1
             THEN last.err = "ValueError"
             ELSE last.err = "none" /\ last.ret = FindOfLast)
    /\ [](last.op = "find" => last.err = "none" /\ last.ret >= -1)
    /\ [][last'.op \in {"find", "index"} => UNCHANGED <<lists, utts, net>>]_vars

\* index raised on a confusion network that holds every word of the phrase
C4_Witness ==
    /\ mode = "cn"
    /\ last.op = "index"
    /\ last.err = "ValueError"
    /\ \A k \in DOMAIN last.phrase.words : last.phrase.words[k] \in net.wordset

(***************************************************************************)
(* Properties of UtteranceConfusionNetwork.                                *)
(***************************************************************************)
ReplaceOps == {"replace", "phrase2category_label"}

\* whether get_phrase_idxs found the phrase of the last call in its receiver
Matched ==
    GetPhraseIdxs(last.pre, last.phrase, 0, Len(last.pre.cn), TRUE) # <<>>

\* C5: replace and phrase2category_label on a lattice in which
\* get_phrase_idxs finds no occurrence of the phrase return the receiver
\* itself, and its slots, long links, word set and abstraction indices are
\* unchanged.
C5_NoMatchReturnsReceiver ==
    (mode = "cn" /\ last.op \in ReplaceOps /\ ~Matched) =>
        /\ last.err = "none"
        /\ last.same
        /\ last.ret = <<>>
        /\ last.post = last.pre
        /\ net = last.pre

\* a replace that found nothing in a lattice that has long links and holds
\* every word of the phrase
C5_Witness ==
    /\ mode = "cn"
    /\ last.op = "replace"
    /\ ~Matched
    /\ last.same
    /\ LinkCount(last.pre.long_links) > 0
    /\ \A k \in DOMAIN last.phrase.words :
          last.phrase.words[k] \in last.pre.wordset

\* C6: replace and phrase2category_label on a lattice in which the phrase
\* occurs return an object other than the receiver, and after the call,
\* returned or raised, the receiver's slots, long links, per-hop
\* probabilities, word set and abstraction indices are what they were.
C6_MatchReturnsCopy ==
    (mode = "cn" /\ last.op \in ReplaceOps /\ Matched) =>
        /\ last.post = last.pre
        /\ last.err = "none" => ~last.same

\* a replace that appended a long link to the copy it returned
C6_Witness ==
    /\ mode = "cn"
    /\ last.op = "replace"
    /\ Matched
    /\ last.err = "none"
    /\ ~last.same
    /\ LinkCount(net.long_links) > LinkCount(last.pre.long_links)
    /\ net.cn # last.pre.cn

\* the last call ran normalise to its end: a call of normalise, or a replace
\* whose edits were deletions or general-case edits
Normalised ==
    /\ mode = "cn"
    /\ last.err = "none"
    /\ \/ last.op = "normalise"
       \/ /\ last.op = "replace"
          /\ last.ret # <<>>
          /\ Len(last.repl.words) # 1

\* the carried per-hop probabilities that belong to slot i: orig_probs[i - s]
\* of every link of long_links[s], s <= i, that has one
RECURSIVE HopsFrom(_, _, _)
HopsFrom(self, s, i) ==
    IF s > i \/ s >= Len(self.long_links) THEN <<>>
    ELSE LET here == SelectSeq(self.long_links[s + 1],
                               LAMBDA l : i - s < Len(l.orig_probs))
         IN [k \in DOMAIN here |-> here[k].orig_probs[i - s + 1]]
            \o HopsFrom(self, s + 1, i)

\* the probabilities hyp[0] of the long links covering slot i: those of
\* long_links[s] with s <= i < end
RECURSIVE CoveringFrom(_, _, _)
CoveringFrom(self, s, i) ==
    IF s > i \/ s >= Len(self.long_links) THEN <<>>
    ELSE LET here == SelectSeq(self.long_links[s + 1], LAMBDA l : i < l.end)
         IN [k \in DOMAIN here |-> here[k].hyp.p] \o CoveringFrom(self, s + 1, i)

Slots(self) == 0..(Len(self.cn) - 1)

\* C7, as amended: after normalise() has completed, for every slot, the sum
\* of the probabilities of the slot's alternatives plus the carried per-hop
\* probabilities orig_probs[slot - start] of the long links that carry one
\* for the slot is exactly 1; so it is for the lattice replace() returns
\* after a general-case or deletion edit.
C7_MassWithCarriedProbabilities ==
    Normalised =>
        \A i \in Slots(net) :
            Plus(SumOf(Probs(net.cn[i + 1])), SumOf(HopsFrom(net, 0, i))) = One

\* C7, as stated: after normalise(), for every slot, the sum of the
\* probabilities of the slot's alternatives plus the probabilities of the
\* long links covering the slot is exactly 1.
C7_MassWithLinkProbabilities ==
    Normalised =>
        \A i \in Slots(net) :
            Plus(SumOf(Probs(net.cn[i + 1])), SumOf(CoveringFrom(net, 0, i))) = One

\* normalise ran to its end on a lattice with a slot that has alternatives
\* and a long link whose carried probability there is not its probability
C7_Witness ==
    /\ Normalised
    /\ \E i \in Slots(net) :
          /\ net.cn[i + 1] # <<>>
          /\ HopsFrom(net, 0, i) # <<>>
          /\ SumOf(HopsFrom(net, 0, i)) # SumOf(CoveringFrom(net, 0, i))

\* C8: normalise() is idempotent: once it has completed, a second call
\* completes and leaves every alternative probability and every carried
\* per-hop probability of a long link as the first call left it.
C8_NormaliseIdempotent ==
    Normalised => Normalise(net) = [net |-> net, err |-> "none"]

\* a call of normalise that changed probabilities of a lattice with a long
\* link
C8_Witness ==
    /\ mode = "cn"
    /\ last.op = "normalise"
    /\ last.err = "none"
    /\ last.post # last.pre
    /\ LinkCount(net.long_links) > 0

\* C9: after any sequence of add, replace, phrase2category_label, prune,
\* lower, sort and normalise calls the word set of a confusion network is
\* the set of the words of its slots' alternatives and of its long links'
\* phrases.
C9_WordsetIsWordsOfNet ==
    mode = "cn" => net.wordset = WordsOf(net)

\* C10: every long link stored in long_links[i] ends at an index greater
\* than i + 1; a single word replaced by two or more words leaves no link
\* from slot i to slot i + 1.
C10_LongLinksAreLong ==
    mode = "cn" =>
        \A i \in 0..(Len(net.long_links) - 1) :
            \A j \in DOMAIN net.long_links[i + 1] :
                net.long_links[i + 1][j].end > i + 1

\* C11: the slot list and the long-link table have the same length, and
\* every link of long_links[i] starts at an existing slot i and ends at an
\* index no larger than the number of slots.
C11_LinksParallelToSlots ==
    mode = "cn" =>
        /\ Len(net.cn) = Len(net.long_links)
        /\ \A i \in 0..(Len(net.long_links) - 1) :
               \A j \in DOMAIN net.long_links[i + 1] :
                   /\ i < Len(net.cn)
                   /\ net.long_links[i + 1][j].end <= Len(net.cn)

\* the alternatives of a slot with a probability of prune_prob or more, in
\* their order
Surviving(alts, prune_prob) == SelectSeq(alts, LAMBDA h : ~Less(h.p, prune_prob))

\* a slot whose only surviving alternative is the empty word
SilenceSlot(alts, prune_prob) ==
    LET s == Surviving(alts, prune_prob)
    IN Len(s) = 1 /\ s[1].w = sil

\* the slots of cn at the indices of kept, in order, each with its surviving
\* alternatives only
RECURSIVE KeptSlots(_, _, _, _)
KeptSlots(cn, kept, k, prune_prob) ==
    IF k > Len(cn) THEN <<>>
    ELSE (IF k \in kept THEN <<Surviving(cn[k], prune_prob)>> ELSE <<>>)
         \o KeptSlots(cn, kept, k + 1, prune_prob)

\* C12: after prune(prune_prob) no remaining slot holds an alternative with
\* a probability below prune_prob, the only slots removed are silence
\* slots, and every other slot keeps its alternatives with a probability of
\* prune_prob or more in their original order.
C12_PruneDropsLowAlternatives ==
    (mode = "cn" /\ last.op = "prune" /\ last.err = "none") =>
        /\ \A i \in DOMAIN last.post.cn : \A j \in DOMAIN last.post.cn[i] :
               ~Less(last.post.cn[i][j].p, last.repl)
        /\ \E kept \in SUBSET (DOMAIN last.pre.cn) :
               /\ \A k \in (DOMAIN last.pre.cn) \ kept :
                      SilenceSlot(last.pre.cn[k], last.repl)
               /\ last.post.cn = KeptSlots(last.pre.cn, kept, 1, last.repl)

(***************************************************************************)
(* Properties of get_utterance_nblist.                                     *)
(***************************************************************************)
\* C13: get_utterance_nblist(n) never has more than n closed hypotheses,
\* and no hypothesis index is closed twice.
C13_AtMostNClosed ==
    mode = "nbest" =>
        /\ Len(closed_hyp) <= limit
        /\ Cardinality(ClosedKeys(closed_hyp)) = Len(closed_hyp)

\* the cap stopped an expansion that had more to close
C13_Witness ==
    /\ mode = "nbest" /\ pc = "done"
    /\ limit >= 2 /\ Len(closed_hyp) = limit
    /\ \E k \in DOMAIN open_hyp : open_hyp[k].hyp_index \notin ClosedKeys(closed_hyp)

\* every slot lists its alternatives by non-increasing probability
SortedLattice(self) ==
    \A k \in DOMAIN self.cn : \A j \in 1..(Len(self.cn[k]) - 1) :
        ~Less(self.cn[k][j].p, self.cn[k][j + 1].p)

\* C14: on a sorted lattice the probabilities of the hypotheses closed never
\* increase along the order of closing.
C14_ClosedByDescendingProbability ==
    (mode = "nbest" /\ SortedLattice(net)) =>
        \A j, k \in DOMAIN closed_hyp :
            j < k => ~Less(closed_hyp[j].prob, closed_hyp[k].prob)

\* three hypotheses of three different probabilities were closed
C14_Witness ==
    /\ mode = "nbest" /\ SortedLattice(net)
    /\ Len(closed_hyp) >= 3
    /\ Less(closed_hyp[3].prob, closed_hyp[2].prob)
    /\ Less(closed_hyp[2].prob, closed_hyp[1].prob)

\* the hypothesis indices of the whole lattice: one alternative per slot
AllIndices(self) ==
    LET alts == UNION {DOMAIN self.cn[k] : k \in DOMAIN self.cn}
    IN {v \in [DOMAIN self.cn -> {j - 1 : j \in alts}] :
           \A k \in DOMAIN self.cn : v[k] < Len(self.cn[k])}

\* C15: on a sorted lattice, when a hypothesis is closed no hypothesis of
\* the lattice that is not closed yet has a strictly higher probability,
\* and the first hypothesis closed is the one of all indices 0.
C15_ClosesMostProbableFirst ==
    (mode = "nbest" /\ SortedLattice(net)) =>
        /\ \A k \in DOMAIN closed_hyp :
               \A v \in AllIndices(net) :
                   v \in ClosedKeys(SubSeq(closed_hyp, 1, k - 1))
                   \/ ~Less(closed_hyp[k].prob, GetProb(net, v))
        /\ closed_hyp # <<>> =>
               closed_hyp[1].hyp_index = [k \in DOMAIN net.cn |-> 0]

\* a hypothesis was closed while others of lower probability and of the same
\* probability were not
C15_Witness ==
    /\ mode = "nbest" /\ SortedLattice(net)
    /\ Len(closed_hyp) >= 2
    /\ \E v \in AllIndices(net) \ ClosedKeys(closed_hyp) :
           Less(GetProb(net, v), closed_hyp[Len(closed_hyp)].prob)
    /\ \E v \in AllIndices(net) \ ClosedKeys(closed_hyp) :
           GetProb(net, v) = closed_hyp[Len(closed_hyp)].prob

\* C16: the loop of get_utterance_nblist(n) ends - every turn adds one to a
\* counter that never passes n - and when it has ended either exactly n
\* hypotheses are closed or the frontier holds no hypothesis that is not
\* closed.
C16_EndsAtNClosedOrExhausted ==
    /\ [][pc = "loop" => \/ iters' = iters + 1 /\ iters' <= limit
                         \/ pc' = "done"]_vars
    /\ []((mode = "nbest" /\ pc = "done") =>
            \/ Len(closed_hyp) = limit
            \/ \A k \in DOMAIN open_hyp :
                   open_hyp[k].hyp_index \in ClosedKeys(closed_hyp))

(***************************************************************************)
(* Properties of UtteranceNBList.                                          *)
(***************************************************************************)
\* the entries of an n-best list that are not the '__other__' placeholder
RealHyps(l) == SelectSeq(l, LAMBDA e : e.utt # Split(OtherText))

\* C17: get_best returns the word sequence of the top entry, or of the
\* second entry if the top entry is the '__other__' placeholder, and on a
\* list holding a real hypothesis it never returns the placeholder.
C17_GetBestSkipsOther ==
    (mode = "nblist" /\ last.op = "get_best") =>
        /\ last.err = "none" =>
               /\ last.pre # <<>>
               /\ \/ /\ last.pre[1].utt # Split(OtherText)
                     /\ last.ret = last.pre[1].utt
                  \/ /\ last.pre[1].utt = Split(OtherText)
                     /\ Len(last.pre) >= 2
                     /\ last.ret = last.pre[2].utt
        /\ RealHyps(last.pre) # <<>> =>
               /\ last.err = "none"
               /\ last.ret # Split(OtherText)
               /\ last.ret = RealHyps(last.pre)[1].utt

\* get_best was called on a list of two real hypotheses headed by the
\* placeholder
C17_Witness ==
    /\ mode = "nblist" /\ last.op = "get_best" /\ last.err = "none"
    /\ Len(last.pre) = 3
    /\ last.pre[1].utt = Split(OtherText)
    /\ last.ret = last.pre[2].utt

(***************************************************************************)
(* Properties of n-grams and features.                                     *)
(***************************************************************************)
\* the feature extraction calls
ParseOps == {"parse", "confnet_parse"}

\* the input of the last feature extraction is empty
EmptyInput ==
    IF last.op = "parse" THEN last.input = <<>> ELSE CnIsEmpty(last.input)

\* C18 as stated: with a feature type other than 'ngram' feature
\* extraction fails with NotImplementedError for every input, empty or not,
\* and adds no feature.
C18_OtherTypeAlwaysFails ==
    (mode = "features" /\ last.op \in ParseOps /\ last.type # "ngram") =>
        /\ last.err = "NotImplementedError"
        /\ last.ret = NoFeatures

\* C18, amended: with a feature type other than 'ngram' feature extraction
\* fails with NotImplementedError, adding no feature, for every input that
\* is not empty; on an empty input it does not fail and yields the single
\* feature '__empty__' with the weight 1.
C18_OtherTypeFailsUnlessEmpty ==
    (mode = "features" /\ last.op \in ParseOps /\ last.type # "ngram") =>
        IF EmptyInput
        THEN last.err = "none" /\ DOMAIN last.ret = {EmptyKey}
             /\ last.ret[EmptyKey] = One
        ELSE last.err = "NotImplementedError" /\ last.ret = NoFeatures

\* a type other than 'ngram' was refused on an utterance of two words
C18_Witness ==
    /\ mode = "features" /\ last.op = "parse" /\ last.type # "ngram"
    /\ Len(last.input) = 2
    /\ last.err = "NotImplementedError"

\* the number of occurrences of word in utt
Occurrences_(utt, word) == Len(SelectSeq(utt, LAMBDA w : w = word))

\* C19: a new extractor yields exactly the feature '__empty__' with the
\* weight 1 on an empty Utterance and on an empty confusion network; on a
\* non-empty Utterance with the type 'ngram' the key '__empty__' is absent
\* and the weight of every unigram key (w,) is the number of occurrences of
\* w in the utterance.
C19_EmptyFeatureAndUnigramCounts ==
    (mode = "features" /\ last.op \in ParseOps) =>
        /\ EmptyInput =>
               /\ last.err = "none"
               /\ DOMAIN last.ret = {EmptyKey}
               /\ last.ret[EmptyKey] = One
        /\ (last.op = "parse" /\ last.input # <<>> /\ last.type = "ngram") =>
               /\ last.err = "none"
               /\ EmptyKey \notin DOMAIN last.ret
               /\ \A w \in Range(last.input) :
                      /\ TupleKey(<<w>>) \in DOMAIN last.ret
                      /\ last.ret[TupleKey(<<w>>)] = Frac(Occurrences_(last.input, w), 1)
               /\ \A key \in DOMAIN last.ret :
                      Len(key.words) = 1 => key.words[1] \in Range(last.input)

\* features were taken from an utterance that says a word twice
C19_Witness ==
    /\ mode = "features" /\ last.op = "parse" /\ last.type = "ngram"
    /\ last.size >= 3
    /\ \E w \in Range(last.input) : Occurrences_(last.input, w) = 2
    /\ last.err = "none"

\* the sequence iter_ngrams takes its windows from
Bounded(utt, with_boundaries) ==
    IF with_boundaries THEN <<SENTENCE_START>> \o utt \o <<SENTENCE_END>> ELSE utt

Identifies(self, t) ==
    IF t[1] < 0
    THEN /\ HasLink(self, -t[1], t[2])
         /\ t[3] >= 0
         /\ t[3] < Len(self.long_links[(-t[1]) + 1][t[2] + 1].hyp.w.words)
    ELSE HasAlt(self, t[1], t[2]) /\ t[3] = 0

\* the words of the element t identifies: those of the link's phrase from
\* the offset t[3] on, or the one word of the alternative
WordsAt(self, t) ==
    IF t[1] < 0
    THEN PhraseFrom(self.long_links[(-t[1]) + 1][t[2] + 1].hyp.w, t[3]).words
    ELSE <<self.cn[t[1] + 1][t[2] + 1].w>>

\* the words of the elements idxs[k..] identify, in order
RECURSIVE WordsOfMatch(_, _, _)
WordsOfMatch(self, idxs, k) ==
    IF k > Len(idxs) THEN <<>>
    ELSE WordsAt(self, idxs[k]) \o WordsOfMatch(self, idxs, k + 1)

\* C21: every triple of a non-empty result of get_phrase_idxs for a
\* non-empty phrase identifies an existing element, a long link of
\* long_links[abs(slot index)] when the slot index is negative and an
\* alternative of the slot otherwise, for every start slot, slot 0 included,
\* and the words of the elements identified, in order, are the phrase; these
\* are the elements _replace edits in the turn of its loop that follows.
C21_TriplesIdentifyTheMatch ==
    (mode = "replace" /\ rep.pc = "loop" /\ rep.idxs # <<>>) =>
        /\ \A k \in DOMAIN rep.idxs : Identifies(rep.acc.net, rep.idxs[k])
        /\ WordsOfMatch(rep.acc.net, rep.idxs, 1) = rep.phrase.words

\* the turn of the loop that edits the occurrence idxs with replacement
\* takes the general case (lines 787-811)
GeneralCase(idxs, replacement) ==
    /\ Len(replacement.words) > 0
    /\ Len(idxs) > 1 \/ Len(replacement.words) > 1 \/ idxs[1][1] < 0
    /\ idxs[Len(idxs)][3] = 0

\* the probability of the element t identifies
ProbAt(self, t) ==
    IF t[1] < 0 THEN self.long_links[(-t[1]) + 1][t[2] + 1].hyp.p
    ELSE self.cn[t[1] + 1][t[2] + 1].p

\* the slot just past the element t identifies
EndAt(self, t) ==
    IF t[1] < 0 THEN self.long_links[(-t[1]) + 1][t[2] + 1].end
    ELSE t[1] + 1

\* the elements of l whose 0-based positions are not in gone, in order
Without(l, gone) ==
    LET Keep(k) == (k - 1) \notin gone
        RECURSIVE From(_)
        From(k) == IF k > Len(l) THEN <<>>
                   ELSE IF Keep(k) THEN <<l[k]>> \o From(k + 1) ELSE From(k + 1)
    IN From(1)

\* the long link the general case is to create for the match idxs of self
NewLink(self, idxs, replacement) ==
    LET probs == [k \in DOMAIN idxs |-> ProbAt(self, idxs[k])]
    IN [end |-> EndAt(self, idxs[Len(idxs)]),
        orig_probs |-> probs,
        hyp |-> [p |-> ProductOf(probs), w |-> replacement]]

\* the slots and long links the general case is to leave: the matched
\* alternatives and links gone, everything else in place, the new link the
\* last of its slot
GeneralEdit(self, idxs, replacement) ==
    LET s == Abs(idxs[1][1])
        alts_gone(i) == {idxs[k][2] : k \in {j \in DOMAIN idxs :
                                                idxs[j][1] >= 0 /\ idxs[j][1] = i}}
        links_gone(i) == {idxs[k][2] : k \in {j \in DOMAIN idxs :
                                                 idxs[j][1] < 0 /\ -idxs[j][1] = i}}
    IN [cn |-> [i \in DOMAIN self.cn |-> Without(self.cn[i], alts_gone(i - 1))],
        long_links |->
            [i \in DOMAIN self.long_links |->
                Without(self.long_links[i], links_gone(i - 1))
                \o (IF i = s + 1 THEN <<NewLink(self, idxs, replacement)>> ELSE <<>>)]]

\* C22: a replace that takes the general case for the one occurrence it
\* finds returns a lattice with one new long link in long_links[s], s the
\* start slot of the match, that ends just past the last matched element,
\* holds the replacement as its phrase, the product of the probabilities
\* of the matched alternatives and links as its probability and these
\* probabilities, in match order, as its carried per-hop list; every
\* matched alternative or link is gone and no other one is.
C22_GeneralCaseLink ==
    (/\ mode = "replace" /\ rep.pc = "loop" /\ rep.turns = 1 /\ rep.idxs = <<>>
     /\ GeneralCase(rep.matched, rep.replacement)) =>
        LET returned == Finish(net, rep.copy, rep.acc)
            edit == GeneralEdit(rep.before, rep.matched, rep.replacement)
        IN /\ returned.err = "none"
           /\ returned.replaced.long_links = edit.long_links
           /\ \A i \in DOMAIN edit.cn :
                  [j \in DOMAIN returned.replaced.cn[i] |-> returned.replaced.cn[i][j].w]
                  = [j \in DOMAIN edit.cn[i] |-> edit.cn[i][j].w]
           /\ Len(returned.replaced.cn) = Len(edit.cn)

\* self has no long link
NoLongLinks(self) == LinkCount(self.long_links) = 0

\* the smallest slot at which the words of the phrase are among the
\* alternatives of consecutive slots, or -1
ContiguousFind(self, phrase) ==
    LET n == Len(phrase.words)
        at == {i \in 0..(Len(self.cn) - n) :
                  \A k \in 1..n :
                      \E j \in DOMAIN self.cn[i + k] : self.cn[i + k][j].w = phrase.words[k]}
    IN IF at = {} THEN -1 ELSE CHOOSE i \in at : \A j \in at : i <= j

\* every step of the match starts at the slot where the step before ends
Consecutive(self, idxs) ==
    \A k \in 1..(Len(idxs) - 1) : Abs(idxs[k + 1][1]) = EndAt(self, idxs[k])

\* C23: on a confusion network without long links find(phrase) and
\* find_unaware(phrase) agree for every non-empty phrase: both return the
\* smallest slot from which the words of the phrase are among the
\* alternatives of consecutive slots, or -1, and the steps of the match
\* get_phrase_idxs returns cover consecutive slots.
C23_FindAgreesWithFindUnaware ==
    (mode = "replace" /\ last.op = "find" /\ NoLongLinks(last.pre)) =>
        /\ last.ret.find = last.ret.find_unaware
        /\ last.ret.find = ContiguousFind(last.pre, last.phrase)
        /\ Consecutive(last.pre, last.ret.idxs)

\* C26: every long link of a confusion network built by add and replace
\* carries one per-hop probability for each slot it spans, len(orig_probs)
\* = end - start, also when the replaced match contained a long link, so
\* that normalise counts it at the slots from its start up to its end and
\* at no other.
C26_OneCarriedProbabilityPerSlot ==
    (mode = "replace" /\ rep.pc = "none") =>
        \A i \in DOMAIN net.long_links : \A j \in DOMAIN net.long_links[i] :
            Len(net.long_links[i][j].orig_probs) = net.long_links[i][j].end - (i - 1)

\* C27: replace ends on every lattice, for every non-empty phrase and every
\* replacement, one that contains the phrase included: every turn of the
\* loop over the occurrences searches on from a slot strictly greater than
\* the start slot of the match it edited, which is no lower than the slot
\* the search before started at, so the loop takes at most one turn per
\* slot.
C27_ReplaceEnds ==
    /\ [][(rep.pc = "loop" /\ rep'.pc = "loop") =>
              /\ rep'.turns = rep.turns + 1
              /\ Abs(rep.idxs[1][1]) >= rep.from
              /\ rep'.from > Abs(rep.idxs[1][1])
              /\ rep'.idxs # <<>> => Abs(rep'.idxs[1][1]) >= rep'.from]_vars
    /\ []((mode = "replace" /\ rep.pc = "loop") => rep.turns <= Len(rep.acc.net.cn))

\* a replacement that contains the phrase was put in for two occurrences
\* and no third was found
C27_Witness ==
    /\ mode = "replace" /\ rep.pc = "loop"
    /\ rep.turns = 2
    /\ rep.idxs = <<>>
    /\ rep.acc.err = "none"
    /\ Range(rep.phrase.words) \subseteq Range(rep.replacement.words)

(***************************************************************************)
(* Properties of the comparison of utterances.                             *)
(***************************************************************************)
\* C24: for two Utterance objects a and b, a != b is the negation of
\* a == b: a != a is false, and utterances with equal word lists never
\* compare as unequal.
C24_NeNegatesEq ==
    (mode = "compare" /\ last.op = "compare") =>
        /\ last.ret.ne = ~last.ret.eq
        /\ last.self = last.phrase => ~last.ret.ne

(***************************************************************************)
(* Properties of AbstractedUtterance.                                      *)
(***************************************************************************)
\* the indices the claim expects after orig was replaced at startidx by one
\* word: those before the phrase, the phrase's, and those behind it moved
\* by 1 - len(orig)
ExpectedIdxs(abstr_idxs, startidx, len_orig) ==
    {abstr_idxs[k] : k \in {j \in DOMAIN abstr_idxs : abstr_idxs[j] < startidx}}
    \cup {startidx}
    \cup {abstr_idxs[k] + 1 - len_orig :
             k \in {j \in DOMAIN abstr_idxs : abstr_idxs[j] >= startidx + len_orig}}

\* C25: after a call of phrase2category_label or replace that matches, the
\* abstraction indices of the utterance returned are strictly increasing
\* and are exactly the positions of the words substituted in so far and not
\* replaced away, an abstracted word behind the replaced phrase, the one
\* right behind it included, keeping its entry moved by 1 - len(orig); the
\* object returned is a new one and the receiver keeps its word list and
\* its abstraction indices.
C25_AbstractionIndices ==
    (/\ mode = "abstracted" /\ last.op \in {"replace", "phrase2category_label"}
     /\ last.ret.startidx # -1) =>
        LET returned == abutts[last.ret.obj]
            self == abutts[last.self]
        IN /\ \A k \in 1..(Len(returned.abstr_idxs) - 1) :
                  returned.abstr_idxs[k] < returned.abstr_idxs[k + 1]
           /\ Range(returned.abstr_idxs)
                  = ExpectedIdxs(last.pre.abstr_idxs, last.ret.startidx, Len(last.phrase))
           /\ last.ret.obj # last.self
           /\ self.utterance = last.pre.utterance
           /\ self.abstr_idxs = last.pre.abstr_idxs

(***************************************************************************)
(* Properties of the NLG process.                                          *)
(***************************************************************************)
\* Is s a prefix of t?
IsPrefix(s, t) == Len(s) <= Len(t) /\ SubSeq(t, 1, Len(s)) = s

\* what has been sent on a connection since the mark
Since(log, mark) == SubSeq(log, mark + 1, Len(log))

\* the number of nlg_text_generated() commands sent
Generated ==
    Cardinality({k \in DOMAIN hub.commands_out :
                    hub.commands_out[k] = Command("nlg_text_generated")})

\* the step by which process_da returns
ProcessDaReturns == nlg.da # NoDa /\ nlg'.da = NoDa

\* C28: a call of process_da for a dialogue act other than 'silence()'
\* sends nlg_text_generated() on commands, then TTSText(text) on commands,
\* then TTSText of the same text on text_out, and nothing else; for
\* 'silence()' it sends nlg_text_generated() on commands only.  Whenever
\* the process is not inside process_da, the number of nlg_text_generated()
\* commands sent is the number of dialogue acts handed to process_da.
C28_ProcessDaSends ==
    /\ [][ProcessDaReturns =>
            /\ Since(hub'.commands_out, nlg.commands_mark) = CommandsOf(nlg.da)
            /\ Since(hub'.text_out, nlg.text_mark) = TextOutOf(nlg.da)]_vars
    /\ [](mode = "nlg" /\ nlg.da # NoDa =>
            /\ IsPrefix(Since(hub.commands_out, nlg.commands_mark), CommandsOf(nlg.da))
            /\ IsPrefix(Since(hub.text_out, nlg.text_mark), TextOutOf(nlg.da))
            /\ Since(hub.text_out, nlg.text_mark) # <<>> =>
                  Since(hub.commands_out, nlg.commands_mark) = CommandsOf(nlg.da))
    /\ [](mode = "nlg" /\ nlg.da = NoDa => Generated = nlg.calls)

\* process_da has returned for 'silence()' and then for a dialogue act
\* with a text
C28_Witness ==
    /\ mode = "nlg"
    /\ nlg.da = NoDa
    /\ nlg.calls = 2
    /\ hub.commands_out = <<Command("nlg_text_generated"),
                            Command("nlg_text_generated"),
                            TTSText(Generate("hello()"))>>
    /\ hub.text_out = <<TTSText(Generate("hello()"))>>


\* the number of flushed() commands sent
Flushed ==
    Cardinality({k \in DOMAIN hub.commands_out :
                    hub.commands_out[k] = Command("flushed")})

\* the step by which process_pending_commands returns after a flush
FlushReturns == nlg.pc = "flush" /\ nlg'.pc # "flush" /\ nlg'.exit = "none"

\* from the flush to the end of the turn of run's loop
BehindFlush == nlg.pc \in {"flush", "read"} \/ nlg.ret = "check"

\* C29: on a flush() process_pending_commands takes everything off
\* dialogue_act_in, sending nothing meanwhile, then sends one flushed() and
\* returns False at once, on to read_dialogue_act_write_text; a dialogue
\* act that was waiting on dialogue_act_in when the flush was read is never
\* handed to process_da, and nothing is taken off commands between the
\* flush and the next turn of run's loop.
C29_FlushDiscardsPending ==
    /\ [][FlushReturns =>
            /\ hub.dialogue_act_in = <<>>
            /\ hub'.commands_out = Append(hub.commands_out, Command("flushed"))
            /\ hub'.text_out = hub.text_out
            /\ nlg'.pc = "read"]_vars
    /\ [][nlg.pc = "flush" /\ nlg'.pc = "flush" =>
            /\ hub'.commands_out = hub.commands_out
            /\ hub'.text_out = hub.text_out]_vars
    /\ [][mode = "nlg" /\ BehindFlush =>
            IsPrefix(hub.commands_in, hub'.commands_in)]_vars
    /\ [](mode = "nlg" => nlg.doomed \cap nlg.handled = {} /\ Flushed = nlg.flushes)

\* a flush has returned that found something on dialogue_act_in, another
\* command still waiting on commands
C29_Witness ==
    /\ mode = "nlg"
    /\ nlg.pc = "read"
    /\ nlg.flushes = 1
    /\ nlg.doomed # {}
    /\ hub.commands_in # <<>>
    /\ hub.commands_out = <<Command("flushed")>>


\* run() has ended, by a return or by an exception
Exited == nlg.pc \in {"returned", "raised"}

\* C30: whenever run() has ended, by stop(), by a close event it saw, by
\* KeyboardInterrupt or by an uncaught exception, close_event is set.
C30_ExitSetsCloseEvent ==
    mode = "nlg" /\ Exited => hub.close_event


\* the steps of the NLG process itself, which the scheduler lets run
NlgSteps ==
    \/ NlgCheckCloseEvent
    \/ NlgCommand
    \/ NlgFlush
    \/ NlgRead
    \/ NlgTextGenerated
    \/ NlgTTSCommands
    \/ NlgTTSTextOut

FairNLG == SpecNLG /\ WF_vars(NlgSteps)

\* a stop() waits on commands
StopWaiting ==
    \E k \in DOMAIN hub.commands_in :
        hub.commands_in[k].type = "Command" /\ hub.commands_in[k].name = "stop"

\* the parts of C30 that hold: under FairNLG run() ends once the close
\* event is set or a stop() waits on commands; after its end the process
\* takes nothing off its connections and sends nothing; stop() is the one
\* way out that leaves the close event unset
RunEnds == (mode = "nlg" /\ (hub.close_event \/ StopWaiting)) ~> Exited

NothingAfterExit ==
    [][Exited => /\ nlg' = nlg
                 /\ hub'.commands_out = hub.commands_out
                 /\ hub'.text_out = hub.text_out
                 /\ IsPrefix(hub.commands_in, hub'.commands_in)
                 /\ IsPrefix(hub.dialogue_act_in, hub'.dialogue_act_in)]_vars

OnlyStopLeavesUnset ==
    mode = "nlg" /\ Exited /\ ~hub.close_event => nlg.exit = "stop"

====
